---------------------------- MODULE Spec2Model ----------------------------
(***************************************************************************)
(* A model of the nessy NES core: the address-decoding bus (src/bus.rs),   *)
(* the PPU register file behind it (src/ppu.rs), the NROM mapper           *)
(* (src/mapper/nrom.rs) and the 6502 interpreter (src/cpu.rs).             *)
(*                                                                         *)
(* Every routine of the program is an operator over a "machine" record     *)
(*     [cpu |-> ..., bus |-> ..., err |-> ..., ret |-> ...]                *)
(* holding the Cpu struct, the Bus struct, the panic the routine ended in  *)
(* ("none" while it runs) and the value it returned.  A routine that is    *)
(* entered with err # "none" does nothing: a Rust panic unwinds through    *)
(* every caller.                                                           *)
(***************************************************************************)
EXTENDS Integers, Sequences, FiniteSets, TLC

VARIABLES
    cpu,              \* the Cpu struct
    bus,              \* the Bus struct: cpu_ram, rom (mapper, mirroring), ppu
    err,              \* "none", or the panic that ended the program
    overflow_checks,  \* the build: TRUE when rustc inserts overflow checks
    last,             \* the last operation: its name, arguments and result
    prev,             \* the operation before it
    pre,              \* cpu and bus as they were before the last operation
    steps,            \* operations performed so far
    run               \* Cpu::run_with_callback: where the loop stands, what
                      \* its callback saw and the opcodes it fetched

vars == <<cpu, bus, err, overflow_checks, last, prev, pre, steps, run>>

----------------------------------------------------------------------------
(* Machine integers.                                                       *)

Byte == 0 .. 255
Bit  == 0 .. 1

RECURSIVE BitAnd(_, _)
BitAnd(x, y) ==
    IF x = 0 \/ y = 0 THEN 0
    ELSE (x % 2) * (y % 2) + 2 * BitAnd(x \div 2, y \div 2)

RECURSIVE BitOr(_, _)
BitOr(x, y) ==
    IF x = 0 THEN y
    ELSE IF y = 0 THEN x
    ELSE (IF x % 2 = 1 \/ y % 2 = 1 THEN 1 ELSE 0) + 2 * BitOr(x \div 2, y \div 2)

RECURSIVE BitXor(_, _)
BitXor(x, y) ==
    IF x = 0 THEN y
    ELSE IF y = 0 THEN x
    ELSE ((x + y) % 2) + 2 * BitXor(x \div 2, y \div 2)

RECURSIVE Pow2(_)
Pow2(n) == IF n = 0 THEN 1 ELSE 2 * Pow2(n - 1)

\* x << n and x >> n on a w-bit unsigned integer: bits shifted out are lost.
Shl(x, n, w) == (x * Pow2(n)) % Pow2(w)
Shr(x, n)    == x \div Pow2(n)

----------------------------------------------------------------------------
(* Arrays.  A Rust array or Vec of bytes is its length, the byte it was    *)
(* filled with, and the cells that differ from that byte.  Indexing past   *)
(* the length panics.                                                      *)

NewArray(len, fill) == [len |-> len, fill |-> fill, cells |-> <<>>]

InBounds(arr, i) == i >= 0 /\ i < arr.len

ArrGet(arr, i) == IF i \in DOMAIN arr.cells THEN arr.cells[i] ELSE arr.fill

ArrPut(arr, i, v) ==
    LET old == arr.cells
        dom == IF v = arr.fill THEN DOMAIN old \ {i} ELSE DOMAIN old \cup {i}
    IN  [arr EXCEPT !.cells = [j \in dom |-> IF j = i THEN v ELSE old[j]]]

Panic(s, kind) == [s EXCEPT !.err = kind]

Return(s, value) == [s EXCEPT !.ret = value]

\* The rest K of a routine runs on the machine r an earlier call left,
\* unless that call panicked: then the panic is the outcome.  The earlier
\* call is evaluated once, to the machine v.
Then(r, K(_)) ==
    CHOOSE out \in {IF v.err # "none" THEN v ELSE K(v) : v \in {r}} : TRUE

\* The result of +, - or += on a w-bit unsigned integer whose exact value is
\* raw: a build with overflow checks panics when raw does not fit, a build
\* without them wraps.
Checked(s, raw, w) ==
    IF s.err # "none" THEN s
    ELSE IF raw >= 0 /\ raw < Pow2(w) THEN Return(s, raw)
    ELSE IF overflow_checks THEN Panic(s, "ArithmeticOverflow")
    ELSE Return(s, raw % Pow2(w))

----------------------------------------------------------------------------
(* The NROM mapper, src/mapper/nrom.rs.  The Mapper trait's read, write    *)
(* and read_chr_rom are implemented by Nrom's cpu_read, cpu_write and      *)
(* ppu_read.                                                               *)

\* Nrom::new: the variant is chosen from the length of chr_rom.
Nrom_new(pgr_rom, chr_rom) ==
    [variant |-> IF chr_rom.len > 8196 THEN "Nrom256" ELSE "Nrom128",
     pgr_rom |-> pgr_rom,
     chr_rom |-> chr_rom]

NromEffective(mapper, adress) ==
    IF mapper.variant = "Nrom128" THEN BitAnd(adress, \h3FFF)
    ELSE BitAnd(adress, \h7FFF)

\* Nrom::cpu_read
Nrom_cpu_read(s, adress) ==
    IF s.err # "none" THEN s
    ELSE IF adress >= \h8000 /\ adress <= \hFFFF THEN
        LET mapper    == s.bus.rom.mapper
            effective == NromEffective(mapper, adress)
        IN  IF InBounds(mapper.pgr_rom, effective)
            THEN Return(s, ArrGet(mapper.pgr_rom, effective))
            ELSE Panic(s, "IndexOutOfBounds")
    ELSE Panic(s, "UndefinedMapping")

\* Nrom::cpu_write
Nrom_cpu_write(s, adress, value) ==
    IF s.err # "none" THEN s
    ELSE IF adress >= \h8000 /\ adress <= \hFFFF THEN
        LET mapper    == s.bus.rom.mapper
            effective == NromEffective(mapper, adress)
        IN  IF InBounds(mapper.pgr_rom, effective)
            THEN [s EXCEPT !.bus.rom.mapper.pgr_rom = ArrPut(@, effective, value)]
            ELSE Panic(s, "IndexOutOfBounds")
    ELSE Panic(s, "UndefinedMapping")

\* Nrom::ppu_read
Nrom_ppu_read(s, adress) ==
    IF s.err # "none" THEN s
    ELSE IF adress >= 0 /\ adress <= \h1FFF THEN
        LET mapper == s.bus.rom.mapper
        IN  IF InBounds(mapper.chr_rom, adress)
            THEN Return(s, ArrGet(mapper.chr_rom, adress))
            ELSE Panic(s, "IndexOutOfBounds")
    ELSE Panic(s, "UndefinedMapping")

----------------------------------------------------------------------------
(* The PPU registers, src/ppu.rs.                                          *)

VRAM_ADD_INCREMENT == 4

AddrRegister_new == [value |-> 0, is_hi |-> TRUE]

\* the mirror-down both AddrRegister methods end with
AddrMirrorDown(value) == IF value > \h3FFF THEN BitAnd(value, \h3FFF) ELSE value

\* AddrRegister::write taking the low byte first: C40 must notice.
AddrRegister_write_low_first(addr, value) ==
    LET v == IF addr.is_hi
             THEN BitOr(BitAnd(addr.value, \hFF00), value)
             ELSE BitOr(Shl(value, 8, 16), BitAnd(addr.value, \h00FF))
    IN  [value |-> AddrMirrorDown(v), is_hi |-> ~addr.is_hi]

\* AddrRegister::write
AddrRegister_write(addr, value) ==
    LET v == IF addr.is_hi
             THEN BitOr(Shl(value, 8, 16), BitAnd(addr.value, \h00FF))
             ELSE BitOr(BitAnd(addr.value, \hFF00), value)
    IN  [value |-> AddrMirrorDown(v), is_hi |-> ~addr.is_hi]

\* AddrRegister::increment (wrapping_add on u16)
AddrRegister_increment(addr, value) ==
    [addr EXCEPT !.value = AddrMirrorDown((addr.value + value) % 65536)]

\* ControlRegister::vram_addr_increment
vram_addr_increment(ctrl) ==
    IF BitAnd(ctrl.value, VRAM_ADD_INCREMENT) = 0 THEN 1 ELSE 32

\* Ppu::new
Ppu_new(mirroring) ==
    [palette_table     |-> NewArray(32, 0),
     vram              |-> NewArray(2048, 0),
     internal_data_buf |-> 0,
     addr              |-> AddrRegister_new,
     ctrl              |-> [value |-> 0],
     mirroring         |-> mirroring]

\* Ppu::increment_vram_addr
increment_vram_addr(ppu) ==
    [ppu EXCEPT !.addr = AddrRegister_increment(@, vram_addr_increment(ppu.ctrl))]

\* Ppu::mirror_vram_addr
mirror_vram_addr(ppu, addr) ==
    LET mirrored_vram == BitAnd(addr, \h2FFF)
        vram_index    == mirrored_vram - \h2000
        name_table    == vram_index \div \h400
    IN  IF ppu.mirroring = "Vertical" /\ name_table \in {2, 3} THEN vram_index - \h800
        ELSE IF ppu.mirroring = "Horizontal" /\ name_table = 2 THEN vram_index - \h400
        ELSE IF ppu.mirroring = "Horizontal" /\ name_table = 1 THEN vram_index - \h400
        ELSE IF ppu.mirroring = "Horizontal" /\ name_table = 3 THEN vram_index - \h800
        ELSE vram_index

\* Ppu::read: the address is advanced first, then the old address is served.
Ppu_read(s) ==
    IF s.err # "none" THEN s
    ELSE
        LET addr == s.bus.ppu.addr.value
            s1   == [s EXCEPT !.bus.ppu = increment_vram_addr(@)]
            ppu  == s1.bus.ppu
        IN  IF addr <= \h1FFF THEN
                LET c == Nrom_ppu_read(s1, addr)
                IN  IF c.err # "none" THEN c
                    ELSE Return([s1 EXCEPT !.bus.ppu.internal_data_buf = c.ret],
                                ppu.internal_data_buf)
            ELSE IF addr <= \h2FFF THEN
                LET idx == mirror_vram_addr(ppu, addr)
                IN  IF InBounds(ppu.vram, idx)
                    THEN Return([s1 EXCEPT !.bus.ppu.internal_data_buf =
                                               ArrGet(ppu.vram, idx)],
                                ppu.internal_data_buf)
                    ELSE Panic(s1, "IndexOutOfBounds")
            ELSE IF addr <= \h3EFF THEN Panic(s1, "PpuUnexpectedAddr")
            ELSE IF addr <= \h3FFF THEN
                IF InBounds(ppu.palette_table, addr - \h3F00)
                THEN Return(s1, ArrGet(ppu.palette_table, addr - \h3F00))
                ELSE Panic(s1, "IndexOutOfBounds")
            ELSE Panic(s1, "PpuMirroredSpace")

\* Ppu::write: a nametable write stores the byte and then reaches todo!().
Ppu_write(s, value) ==
    IF s.err # "none" THEN s
    ELSE
        LET addr == s.bus.ppu.addr.value
            ppu  == s.bus.ppu
        IN  IF addr <= \h1FFF THEN Panic(s, "ChrRomWrite")
            ELSE IF addr <= \h2FFF THEN
                LET idx == mirror_vram_addr(ppu, addr)
                IN  IF InBounds(ppu.vram, idx)
                    THEN Panic([s EXCEPT !.bus.ppu.vram = ArrPut(@, idx, value)],
                               "NotYetImplemented")
                    ELSE Panic(s, "IndexOutOfBounds")
            ELSE IF addr <= \h3EFF THEN Panic(s, "PpuUnexpectedAddr")
            ELSE IF addr <= \h3FFF THEN
                IF InBounds(ppu.palette_table, addr - \h3F00)
                THEN [s EXCEPT !.bus.ppu =
                        increment_vram_addr(
                            [@ EXCEPT !.palette_table = ArrPut(@, addr - \h3F00, value)])]
                ELSE Panic(s, "IndexOutOfBounds")
            ELSE Panic(s, "PpuMirroredSpace")

----------------------------------------------------------------------------
(* The bus, src/bus.rs.                                                    *)

RAM            == \h0000
RAM_MIRROR_END == \h1FFF
PPU_MIRROR     == \h2008
PPU_MIRROR_END == \h3FFF
CARTRIDGE      == \h4020
CARTRIDGE_END  == \hFFFF

\* WriteOnlyRegisters without the DMA register: C3 must notice.
WriteOnlyRegisters_no_dma == {\h2000, \h2001, \h2003, \h2005, \h2006}

\* the registers Bus::read refuses to read
WriteOnlyRegisters == {\h2000, \h2001, \h2003, \h2005, \h2006, \h4014}

\* Bus::new
Bus_new(rom) ==
    [cpu_ram |-> NewArray(2048, 0),
     rom     |-> rom,
     ppu     |-> Ppu_new(rom.mirroring)]

\* RamIndex with a mask one bit too wide, as a slip in the constant would
\* make it: C1 must notice.
RamIndex_wide(adress) == BitAnd(adress, \h0FFF)

\* the index Bus::read and Bus::write use into cpu_ram
RamIndex(adress) == BitAnd(adress, \h07FF)

\* MirrorDownAddr keeping only the register number: C2 must notice.
MirrorDownAddr_low(adress) == BitAnd(adress, \h0007)

\* the address a PPU mirror access is folded to
MirrorDownAddr(adress) == BitAnd(adress, \h2007)

\* Bus::read
RECURSIVE Bus_read(_, _)
Bus_read(s, adress) ==
    IF s.err # "none" THEN s
    ELSE IF adress >= RAM /\ adress <= RAM_MIRROR_END THEN
        IF InBounds(s.bus.cpu_ram, RamIndex(adress))
        THEN Return(s, ArrGet(s.bus.cpu_ram, RamIndex(adress)))
        ELSE Panic(s, "IndexOutOfBounds")
    ELSE IF adress \in WriteOnlyRegisters THEN Panic(s, "WriteOnlyRead")
    ELSE IF adress = \h2007 THEN Ppu_read(s)
    ELSE IF adress >= PPU_MIRROR /\ adress <= PPU_MIRROR_END THEN
        Bus_read(s, MirrorDownAddr(adress))
    ELSE IF adress >= CARTRIDGE /\ adress <= CARTRIDGE_END THEN Nrom_cpu_read(s, adress)
    ELSE Panic(s, "UnmappedAccess")

\* Bus::write
RECURSIVE Bus_write(_, _, _)
Bus_write(s, adress, value) ==
    IF s.err # "none" THEN s
    ELSE IF adress >= RAM /\ adress <= RAM_MIRROR_END THEN
        IF InBounds(s.bus.cpu_ram, RamIndex(adress))
        THEN [s EXCEPT !.bus.cpu_ram = ArrPut(@, RamIndex(adress), value)]
        ELSE Panic(s, "IndexOutOfBounds")
    ELSE IF adress = \h2000 THEN [s EXCEPT !.bus.ppu.ctrl.value = value]
    ELSE IF adress = \h2006 THEN [s EXCEPT !.bus.ppu.addr = AddrRegister_write(@, value)]
    ELSE IF adress = \h2007 THEN Ppu_write(s, value)
    ELSE IF adress >= PPU_MIRROR /\ adress <= PPU_MIRROR_END THEN
        Bus_write(s, MirrorDownAddr(adress), value)
    ELSE IF adress >= CARTRIDGE /\ adress <= CARTRIDGE_END THEN
        Nrom_cpu_write(s, adress, value)
    ELSE Panic(s, "UnmappedAccess")

\* Bus::read_u16 taking the first byte as the high one: C26 must notice.
Bus_read_u16_big_endian(s, adress) ==
    Then(Bus_read(s, adress), LAMBDA low :
    Then(Checked(low, adress + 1, 16), LAMBDA next :
    Then(Bus_read(next, next.ret), LAMBDA high :
    Return(high, BitOr(Shl(low.ret, 8, 16), high.ret)))))

\* Bus::read_u16
Bus_read_u16(s, adress) ==
    Then(Bus_read(s, adress), LAMBDA low :
    Then(Checked(low, adress + 1, 16), LAMBDA next :
    Then(Bus_read(next, next.ret), LAMBDA high :
    Return(high, BitOr(Shl(high.ret, 8, 16), low.ret)))))

\* Bus::write_u16
Bus_write_u16(s, adress, value) ==
    Then(Bus_write(s, adress, BitAnd(value, \h00FF)), LAMBDA low :
    Then(Checked(low, adress + 1, 16), LAMBDA next :
    Bus_write(next, next.ret, Shr(value, 8))))

----------------------------------------------------------------------------
(* The CPU, src/cpu.rs.                                                    *)

\* Cpu::new
Cpu_new ==
    [pc |-> 0, sp |-> \hFD, a |-> 0, x |-> 0, y |-> 0,
     n |-> 0, v |-> 0, b |-> 0, d |-> 0, i |-> 0, z |-> 0, c |-> 0,
     extra_cycle |-> 0]

\* Cpu::stack_push
stack_push(s, value) ==
    Then(Bus_write(s, \h0100 + s.cpu.sp, value), LAMBDA w :
    Then(Checked(w, w.cpu.sp - 1, 8), LAMBDA d :
    [d EXCEPT !.cpu.sp = d.ret]))

\* Cpu::stack_pop
stack_pop(s) ==
    Then(Checked(s, s.cpu.sp + 1, 8), LAMBDA i :
    Bus_read([i EXCEPT !.cpu.sp = i.ret], \h0100 + i.ret))

\* Cpu::set_status
set_status(c, p) ==
    [c EXCEPT !.n = Shr(p, 7),
              !.v = Shr(BitAnd(p, \h40), 6),
              !.b = Shr(BitAnd(p, \h10), 4),
              !.d = Shr(BitAnd(p, \h08), 3),
              !.i = Shr(BitAnd(p, \h04), 2),
              !.z = Shr(BitAnd(p, \h02), 1),
              !.c = BitAnd(p, \h01)]

\* get_status without the constant bit 5
get_status_no_bit5(c) ==
    Shl(c.n, 7, 8) + Shl(c.v, 6, 8) + Shl(c.b, 4, 8)
    + Shl(c.d, 3, 8) + Shl(c.i, 2, 8) + Shl(c.z, 1, 8) + c.c

\* Cpu::get_status
get_status(c) ==
    Shl(c.n, 7, 8) + Shl(c.v, 6, 8) + Shl(1, 5, 8) + Shl(c.b, 4, 8)
    + Shl(c.d, 3, 8) + Shl(c.i, 2, 8) + Shl(c.z, 1, 8) + c.c

\* reset that also clears the registers
reset_clears_registers(s) ==
    Then(Bus_read_u16([s EXCEPT !.cpu = [set_status([@ EXCEPT !.sp = \hFD], \h24)
                                           EXCEPT !.a = 0, !.x = 0, !.y = 0]],
                      \hFFFC), LAMBDA r :
    [r EXCEPT !.cpu.pc = r.ret])

\* Cpu::reset
reset(s) ==
    Then(Bus_read_u16([s EXCEPT !.cpu = set_status([@ EXCEPT !.sp = \hFD], \h24)],
                      \hFFFC), LAMBDA r :
    [r EXCEPT !.cpu.pc = r.ret])

\* Cpu::is_crossing
is_crossing(origin, next) == BitAnd(origin, \hFF00) # BitAnd(next, \hFF00)

\* Cpu::fetch
fetch(s) ==
    Then(Bus_read(s, s.cpu.pc), LAMBDA r :
    Then(Checked(r, r.cpu.pc + 1, 16), LAMBDA p :
    Return([p EXCEPT !.cpu.pc = p.ret], r.ret)))

\* i8::from_le_bytes([value]) as an integer
FromI8(value) == IF Shr(value, 7) # 0 THEN value - 256 ELSE value

\* Cpu::fetch_relative
fetch_relative(s) ==
    Then(fetch(s), LAMBDA f :
    IF f.cpu.pc + FromI8(f.ret) < 0 \/ f.cpu.pc + FromI8(f.ret) > \hFFFF
    THEN Panic(f, "TryFromIntError")
    ELSE Return(f, f.cpu.pc + FromI8(f.ret)))

\* fetch_absolute_adress reading the high byte without a fetch: C38 must
\* notice.
fetch_absolute_adress_one_fetch(s) ==
    Then(fetch(s), LAMBDA lo :
    Then(Bus_read(lo, lo.cpu.pc), LAMBDA hi :
    Return(hi, lo.ret + Shl(hi.ret, 8, 16))))

\* Cpu::fetch_absolute_adress
fetch_absolute_adress(s) ==
    Then(fetch(s), LAMBDA lo :
    Then(fetch(lo), LAMBDA hi :
    Return(hi, lo.ret + Shl(hi.ret, 8, 16))))

\* Cpu::fetch_absolute_indirect_adress
fetch_absolute_indirect_adress(s) ==
    Then(fetch_absolute_adress(s), LAMBDA a :
    Then(Checked(a, a.ret + 1, 16), LAMBDA inc :
    Then(Bus_read(inc, a.ret), LAMBDA lo :
    Then(Bus_read(lo, BitAnd(a.ret, \hFF00) + BitAnd(inc.ret, \h00FF)), LAMBDA hi :
    Return(hi, lo.ret + Shl(hi.ret, 8, 16))))))

\* The address an index register is added to, with the extra cycle of a
\* page crossing
Indexed(s, base, index) ==
    Return([s EXCEPT !.cpu.extra_cycle =
                IF is_crossing(base, (base + index) % 65536) THEN 1 ELSE 0],
           (base + index) % 65536)

\* Cpu::fetch_x_indexed_absolute_adress
fetch_x_indexed_absolute_adress(s) ==
    Then(fetch_absolute_adress(s), LAMBDA a : Indexed(a, a.ret, a.cpu.x))

\* Cpu::fetch_y_indexed_absolute_adress
fetch_y_indexed_absolute_adress(s) ==
    Then(fetch_absolute_adress(s), LAMBDA a : Indexed(a, a.ret, a.cpu.y))

\* Cpu::fetch_zero_page_adress
fetch_zero_page_adress(s) == fetch(s)

\* Cpu::fetch_x_indexed_zero_page_adress
fetch_x_indexed_zero_page_adress(s) ==
    Then(fetch(s), LAMBDA f : Return(f, (f.ret + f.cpu.x) % 256))

\* Cpu::fetch_y_indexed_zero_page_adress
fetch_y_indexed_zero_page_adress(s) ==
    Then(fetch(s), LAMBDA f : Return(f, (f.ret + f.cpu.y) % 256))

\* Cpu::fetch_x_indexed_zero_page_indirect_adress
fetch_x_indexed_zero_page_indirect_adress(s) ==
    Then(fetch(s), LAMBDA f :
    Then(Bus_read(f, (((f.ret + f.cpu.x) % 256) + 1) % 256), LAMBDA hi :
    Then(Bus_read(hi, (f.ret + f.cpu.x) % 256), LAMBDA lo :
    Return(lo, BitOr(Shl(hi.ret, 8, 16), lo.ret)))))

\* fetch_zero_page_indirect_y_indexed_adress with the high pointer byte read
\* at pointer + 1 without the wrap to page zero: C17 must notice.
fetch_zero_page_indirect_y_indexed_adress_carry(s) ==
    Then(fetch(s), LAMBDA f :
    Then(Bus_read(f, f.ret), LAMBDA lo :
    Then(Bus_read(lo, f.ret + 1), LAMBDA hi :
    Indexed(hi, BitOr(lo.ret, Shl(hi.ret, 8, 16)), hi.cpu.y))))

\* Cpu::fetch_zero_page_indirect_y_indexed_adress
fetch_zero_page_indirect_y_indexed_adress(s) ==
    Then(fetch(s), LAMBDA f :
    Then(Bus_read(f, f.ret), LAMBDA lo :
    Then(Bus_read(lo, (f.ret + 1) % 256), LAMBDA hi :
    Indexed(hi, BitOr(lo.ret, Shl(hi.ret, 8, 16)), hi.cpu.y))))

\* Cpu::decode, the arms of the match in the order of the source: opcode
\* :> (instruction, addressing mode, length in bytes, base cycles)
OpcodeTable ==
    (\h69 :> <<"Adc", "Immediate", 2, 2>>)
 @@ (\h6D :> <<"Adc", "Absolute", 3, 4>>)
 @@ (\h7D :> <<"Adc", "XIndexedAbsolute", 3, 4>>)
 @@ (\h79 :> <<"Adc", "YIndexedAbsolute", 3, 4>>)
 @@ (\h65 :> <<"Adc", "ZeroPage", 2, 3>>)
 @@ (\h75 :> <<"Adc", "XIndexedZeroPage", 2, 4>>)
 @@ (\h61 :> <<"Adc", "XIndexedZeroPageIndirect", 2, 6>>)
 @@ (\h71 :> <<"Adc", "ZeroPageIndirectYIndexed", 2, 5>>)
 @@ (\h29 :> <<"And", "Immediate", 2, 2>>)
 @@ (\h2D :> <<"And", "Absolute", 3, 4>>)
 @@ (\h3D :> <<"And", "XIndexedAbsolute", 3, 4>>)
 @@ (\h39 :> <<"And", "YIndexedAbsolute", 3, 4>>)
 @@ (\h25 :> <<"And", "ZeroPage", 2, 3>>)
 @@ (\h35 :> <<"And", "XIndexedZeroPage", 2, 4>>)
 @@ (\h21 :> <<"And", "XIndexedZeroPageIndirect", 2, 6>>)
 @@ (\h31 :> <<"And", "ZeroPageIndirectYIndexed", 2, 5>>)
 @@ (\h0A :> <<"Asl", "Accumulator", 1, 2>>)
 @@ (\h0E :> <<"Asl", "Absolute", 3, 6>>)
 @@ (\h1E :> <<"Asl", "XIndexedAbsolute", 3, 7>>)
 @@ (\h06 :> <<"Asl", "ZeroPage", 2, 5>>)
 @@ (\h16 :> <<"Asl", "XIndexedZeroPage", 2, 6>>)
 @@ (\h90 :> <<"Bcc", "Relative", 2, 2>>)
 @@ (\hB0 :> <<"Bcs", "Relative", 2, 2>>)
 @@ (\hF0 :> <<"Beq", "Relative", 2, 2>>)
 @@ (\h2C :> <<"Bit", "Absolute", 3, 4>>)
 @@ (\h24 :> <<"Bit", "ZeroPage", 2, 3>>)
 @@ (\h30 :> <<"Bmi", "Relative", 2, 2>>)
 @@ (\hD0 :> <<"Bne", "Relative", 2, 2>>)
 @@ (\h10 :> <<"Bpl", "Relative", 2, 2>>)
 @@ (\h00 :> <<"Brk", "None", 1, 7>>)
 @@ (\h50 :> <<"Bvc", "Relative", 2, 2>>)
 @@ (\h70 :> <<"Bvs", "Relative", 2, 2>>)
 @@ (\h18 :> <<"Clc", "None", 1, 2>>)
 @@ (\hD8 :> <<"Cld", "None", 1, 2>>)
 @@ (\h58 :> <<"Cli", "None", 1, 2>>)
 @@ (\hB8 :> <<"Clv", "None", 1, 2>>)
 @@ (\hC9 :> <<"Cmp", "Immediate", 2, 2>>)
 @@ (\hCD :> <<"Cmp", "Absolute", 3, 4>>)
 @@ (\hDD :> <<"Cmp", "XIndexedAbsolute", 3, 4>>)
 @@ (\hD9 :> <<"Cmp", "YIndexedAbsolute", 3, 4>>)
 @@ (\hC5 :> <<"Cmp", "ZeroPage", 2, 3>>)
 @@ (\hD5 :> <<"Cmp", "XIndexedZeroPage", 2, 4>>)
 @@ (\hC1 :> <<"Cmp", "XIndexedZeroPageIndirect", 2, 6>>)
 @@ (\hD1 :> <<"Cmp", "ZeroPageIndirectYIndexed", 2, 5>>)
 @@ (\hE0 :> <<"Cpx", "Immediate", 2, 2>>)
 @@ (\hEC :> <<"Cpx", "Absolute", 3, 4>>)
 @@ (\hE4 :> <<"Cpx", "ZeroPage", 2, 3>>)
 @@ (\hC0 :> <<"Cpy", "Immediate", 2, 2>>)
 @@ (\hCC :> <<"Cpy", "Absolute", 3, 4>>)
 @@ (\hC4 :> <<"Cpy", "ZeroPage", 2, 3>>)
 @@ (\hCE :> <<"Dec", "Absolute", 3, 6>>)
 @@ (\hDE :> <<"Dec", "XIndexedAbsolute", 3, 7>>)
 @@ (\hC6 :> <<"Dec", "ZeroPage", 2, 5>>)
 @@ (\hD6 :> <<"Dec", "XIndexedZeroPage", 2, 6>>)
 @@ (\hCA :> <<"Dex", "None", 1, 2>>)
 @@ (\h88 :> <<"Dey", "None", 1, 2>>)
 @@ (\h49 :> <<"Eor", "Immediate", 2, 2>>)
 @@ (\h4D :> <<"Eor", "Absolute", 3, 4>>)
 @@ (\h5D :> <<"Eor", "XIndexedAbsolute", 3, 4>>)
 @@ (\h59 :> <<"Eor", "YIndexedAbsolute", 3, 4>>)
 @@ (\h45 :> <<"Eor", "ZeroPage", 2, 3>>)
 @@ (\h55 :> <<"Eor", "XIndexedZeroPage", 2, 4>>)
 @@ (\h41 :> <<"Eor", "XIndexedZeroPageIndirect", 2, 6>>)
 @@ (\h51 :> <<"Eor", "ZeroPageIndirectYIndexed", 2, 5>>)
 @@ (\hEE :> <<"Inc", "Absolute", 3, 6>>)
 @@ (\hFE :> <<"Inc", "XIndexedAbsolute", 3, 7>>)
 @@ (\hE6 :> <<"Inc", "ZeroPage", 2, 5>>)
 @@ (\hF6 :> <<"Inc", "XIndexedZeroPage", 2, 6>>)
 @@ (\hE8 :> <<"Inx", "None", 1, 2>>)
 @@ (\hC8 :> <<"Iny", "None", 1, 2>>)
 @@ (\h4C :> <<"Jmp", "Absolute", 3, 3>>)
 @@ (\h6C :> <<"Jmp", "AbsoluteIndirect", 3, 5>>)
 @@ (\h20 :> <<"Jsr", "Absolute", 3, 6>>)
 @@ (\hA9 :> <<"Lda", "Immediate", 2, 2>>)
 @@ (\hAD :> <<"Lda", "Absolute", 3, 4>>)
 @@ (\hBD :> <<"Lda", "XIndexedAbsolute", 3, 4>>)
 @@ (\hB9 :> <<"Lda", "YIndexedAbsolute", 3, 4>>)
 @@ (\hA5 :> <<"Lda", "ZeroPage", 2, 3>>)
 @@ (\hB5 :> <<"Lda", "XIndexedZeroPage", 2, 4>>)
 @@ (\hA1 :> <<"Lda", "XIndexedZeroPageIndirect", 2, 6>>)
 @@ (\hB1 :> <<"Lda", "ZeroPageIndirectYIndexed", 2, 5>>)
 @@ (\hA2 :> <<"Ldx", "Immediate", 2, 2>>)
 @@ (\hAE :> <<"Ldx", "Absolute", 3, 4>>)
 @@ (\hBE :> <<"Ldx", "YIndexedAbsolute", 3, 4>>)
 @@ (\hA6 :> <<"Ldx", "ZeroPage", 2, 3>>)
 @@ (\hB6 :> <<"Ldx", "YIndexedZeroPage", 2, 4>>)
 @@ (\hA0 :> <<"Ldy", "Immediate", 2, 2>>)
 @@ (\hAC :> <<"Ldy", "Absolute", 3, 4>>)
 @@ (\hBC :> <<"Ldy", "XIndexedAbsolute", 3, 4>>)
 @@ (\hA4 :> <<"Ldy", "ZeroPage", 2, 3>>)
 @@ (\hB4 :> <<"Ldy", "XIndexedZeroPage", 2, 4>>)
 @@ (\h4A :> <<"Lsr", "Accumulator", 1, 2>>)
 @@ (\h4E :> <<"Lsr", "Absolute", 3, 6>>)
 @@ (\h5E :> <<"Lsr", "XIndexedAbsolute", 3, 7>>)
 @@ (\h46 :> <<"Lsr", "ZeroPage", 2, 5>>)
 @@ (\h56 :> <<"Lsr", "XIndexedZeroPage", 2, 6>>)
 @@ (\hEA :> <<"Nop", "None", 1, 2>>)
 @@ (\h09 :> <<"Ora", "Immediate", 2, 2>>)
 @@ (\h0D :> <<"Ora", "Absolute", 3, 4>>)
 @@ (\h1D :> <<"Ora", "XIndexedAbsolute", 3, 4>>)
 @@ (\h19 :> <<"Ora", "YIndexedAbsolute", 3, 4>>)
 @@ (\h05 :> <<"Ora", "ZeroPage", 2, 3>>)
 @@ (\h15 :> <<"Ora", "XIndexedZeroPage", 2, 4>>)
 @@ (\h01 :> <<"Ora", "XIndexedZeroPageIndirect", 2, 6>>)
 @@ (\h11 :> <<"Ora", "ZeroPageIndirectYIndexed", 2, 5>>)
 @@ (\h48 :> <<"Pha", "None", 1, 3>>)
 @@ (\h08 :> <<"Php", "None", 1, 3>>)
 @@ (\h68 :> <<"Pla", "None", 1, 4>>)
 @@ (\h28 :> <<"Plp", "None", 1, 4>>)
 @@ (\h2A :> <<"Rol", "Accumulator", 1, 2>>)
 @@ (\h2E :> <<"Rol", "Absolute", 3, 6>>)
 @@ (\h3E :> <<"Rol", "XIndexedAbsolute", 3, 7>>)
 @@ (\h26 :> <<"Rol", "ZeroPage", 2, 5>>)
 @@ (\h36 :> <<"Rol", "XIndexedZeroPage", 2, 6>>)
 @@ (\h6A :> <<"Ror", "Accumulator", 1, 2>>)
 @@ (\h6E :> <<"Ror", "Absolute", 3, 6>>)
 @@ (\h7E :> <<"Ror", "XIndexedAbsolute", 3, 7>>)
 @@ (\h66 :> <<"Ror", "ZeroPage", 2, 5>>)
 @@ (\h76 :> <<"Ror", "XIndexedZeroPage", 2, 6>>)
 @@ (\h40 :> <<"Rti", "None", 1, 6>>)
 @@ (\h60 :> <<"Rts", "None", 1, 6>>)
 @@ (\hE9 :> <<"Sbc", "Immediate", 2, 2>>)
 @@ (\hED :> <<"Sbc", "Absolute", 3, 4>>)
 @@ (\hFD :> <<"Sbc", "XIndexedAbsolute", 3, 4>>)
 @@ (\hF9 :> <<"Sbc", "YIndexedAbsolute", 3, 4>>)
 @@ (\hE5 :> <<"Sbc", "ZeroPage", 2, 3>>)
 @@ (\hF5 :> <<"Sbc", "XIndexedZeroPage", 2, 4>>)
 @@ (\hE1 :> <<"Sbc", "XIndexedZeroPageIndirect", 2, 6>>)
 @@ (\hF1 :> <<"Sbc", "ZeroPageIndirectYIndexed", 2, 5>>)
 @@ (\h38 :> <<"Sec", "None", 1, 2>>)
 @@ (\hF8 :> <<"Sed", "None", 1, 2>>)
 @@ (\h78 :> <<"Sei", "None", 1, 2>>)
 @@ (\h8D :> <<"Sta", "Absolute", 3, 4>>)
 @@ (\h9D :> <<"Sta", "XIndexedAbsolute", 3, 5>>)
 @@ (\h99 :> <<"Sta", "YIndexedAbsolute", 3, 5>>)
 @@ (\h85 :> <<"Sta", "ZeroPage", 2, 3>>)
 @@ (\h95 :> <<"Sta", "XIndexedZeroPage", 2, 4>>)
 @@ (\h81 :> <<"Sta", "XIndexedZeroPageIndirect", 2, 6>>)
 @@ (\h91 :> <<"Sta", "ZeroPageIndirectYIndexed", 2, 6>>)
 @@ (\h8E :> <<"Stx", "Absolute", 3, 4>>)
 @@ (\h86 :> <<"Stx", "ZeroPage", 2, 3>>)
 @@ (\h96 :> <<"Stx", "YIndexedZeroPage", 2, 4>>)
 @@ (\h8C :> <<"Sty", "Absolute", 3, 4>>)
 @@ (\h84 :> <<"Sty", "ZeroPage", 2, 3>>)
 @@ (\h94 :> <<"Sty", "XIndexedZeroPage", 2, 4>>)
 @@ (\hAA :> <<"Tax", "None", 1, 2>>)
 @@ (\hA8 :> <<"Tay", "None", 1, 2>>)
 @@ (\hBA :> <<"Tsx", "None", 1, 2>>)
 @@ (\h8A :> <<"Txa", "None", 1, 2>>)
 @@ (\h9A :> <<"Txs", "None", 1, 2>>)
 @@ (\h98 :> <<"Tya", "None", 1, 2>>)
 @@ (\h04 :> <<"Dop", "ZeroPage", 2, 3>>)
 @@ (\h14 :> <<"Dop", "XIndexedZeroPage", 2, 4>>)
 @@ (\h34 :> <<"Dop", "XIndexedZeroPage", 2, 4>>)
 @@ (\h44 :> <<"Dop", "ZeroPage", 2, 3>>)
 @@ (\h54 :> <<"Dop", "XIndexedZeroPage", 2, 4>>)
 @@ (\h64 :> <<"Dop", "ZeroPage", 2, 3>>)
 @@ (\h74 :> <<"Dop", "XIndexedZeroPage", 2, 4>>)
 @@ (\h80 :> <<"Dop", "Immediate", 2, 2>>)
 @@ (\h82 :> <<"Dop", "Immediate", 2, 2>>)
 @@ (\h89 :> <<"Dop", "Immediate", 2, 2>>)
 @@ (\hC2 :> <<"Dop", "Immediate", 2, 2>>)
 @@ (\hD4 :> <<"Dop", "XIndexedZeroPage", 2, 4>>)
 @@ (\hE2 :> <<"Dop", "Immediate", 2, 2>>)
 @@ (\hF4 :> <<"Dop", "XIndexedZeroPage", 2, 4>>)
 @@ (\h0C :> <<"Top", "Absolute", 3, 4>>)
 @@ (\h1C :> <<"Top", "XIndexedAbsolute", 3, 4>>)
 @@ (\h3C :> <<"Top", "XIndexedAbsolute", 3, 4>>)
 @@ (\h5C :> <<"Top", "XIndexedAbsolute", 3, 4>>)
 @@ (\h7C :> <<"Top", "XIndexedAbsolute", 3, 4>>)
 @@ (\hDC :> <<"Top", "XIndexedAbsolute", 3, 4>>)
 @@ (\hFC :> <<"Top", "XIndexedAbsolute", 3, 4>>)
 @@ (\h1A :> <<"Nop", "None", 1, 2>>)
 @@ (\h3A :> <<"Nop", "None", 1, 2>>)
 @@ (\h5A :> <<"Nop", "None", 1, 2>>)
 @@ (\h7A :> <<"Nop", "None", 1, 2>>)
 @@ (\hDA :> <<"Nop", "None", 1, 2>>)
 @@ (\hFA :> <<"Nop", "None", 1, 2>>)
 @@ (\hA7 :> <<"Lax", "ZeroPage", 2, 3>>)
 @@ (\hB7 :> <<"Lax", "YIndexedZeroPage", 2, 4>>)
 @@ (\hAF :> <<"Lax", "Absolute", 3, 4>>)
 @@ (\hBF :> <<"Lax", "YIndexedAbsolute", 3, 4>>)
 @@ (\hA3 :> <<"Lax", "XIndexedZeroPageIndirect", 2, 6>>)
 @@ (\hB3 :> <<"Lax", "ZeroPageIndirectYIndexed", 2, 5>>)
 @@ (\h87 :> <<"Sax", "ZeroPage", 2, 3>>)
 @@ (\h97 :> <<"Sax", "YIndexedZeroPage", 2, 4>>)
 @@ (\h83 :> <<"Sax", "XIndexedZeroPageIndirect", 2, 6>>)
 @@ (\h8F :> <<"Sax", "Absolute", 3, 4>>)
 @@ (\hEB :> <<"Sbc", "Immediate", 2, 2>>)
 @@ (\hC7 :> <<"Dcp", "ZeroPage", 2, 5>>)
 @@ (\hD7 :> <<"Dcp", "XIndexedZeroPage", 2, 6>>)
 @@ (\hCF :> <<"Dcp", "Absolute", 3, 6>>)
 @@ (\hDF :> <<"Dcp", "XIndexedAbsolute", 3, 7>>)
 @@ (\hDB :> <<"Dcp", "YIndexedAbsolute", 3, 7>>)
 @@ (\hC3 :> <<"Dcp", "XIndexedZeroPageIndirect", 2, 8>>)
 @@ (\hD3 :> <<"Dcp", "ZeroPageIndirectYIndexed", 2, 8>>)
 @@ (\hE7 :> <<"Isb", "ZeroPage", 2, 5>>)
 @@ (\hF7 :> <<"Isb", "XIndexedZeroPage", 2, 6>>)
 @@ (\hEF :> <<"Isb", "Absolute", 3, 6>>)
 @@ (\hFF :> <<"Isb", "XIndexedAbsolute", 3, 7>>)
 @@ (\hFB :> <<"Isb", "YIndexedAbsolute", 3, 7>>)
 @@ (\hE3 :> <<"Isb", "XIndexedZeroPageIndirect", 2, 8>>)
 @@ (\hF3 :> <<"Isb", "ZeroPageIndirectYIndexed", 2, 8>>)
 @@ (\h07 :> <<"Slo", "ZeroPage", 2, 5>>)
 @@ (\h17 :> <<"Slo", "XIndexedZeroPage", 2, 6>>)
 @@ (\h0F :> <<"Slo", "Absolute", 3, 6>>)
 @@ (\h1F :> <<"Slo", "XIndexedAbsolute", 3, 7>>)
 @@ (\h1B :> <<"Slo", "YIndexedAbsolute", 3, 7>>)
 @@ (\h03 :> <<"Slo", "XIndexedZeroPageIndirect", 2, 8>>)
 @@ (\h13 :> <<"Slo", "ZeroPageIndirectYIndexed", 2, 8>>)
 @@ (\h47 :> <<"Sre", "ZeroPage", 2, 5>>)
 @@ (\h57 :> <<"Sre", "XIndexedZeroPage", 2, 6>>)
 @@ (\h4F :> <<"Sre", "Absolute", 3, 6>>)
 @@ (\h5F :> <<"Sre", "XIndexedAbsolute", 3, 7>>)
 @@ (\h5B :> <<"Sre", "YIndexedAbsolute", 3, 7>>)
 @@ (\h43 :> <<"Sre", "XIndexedZeroPageIndirect", 2, 8>>)
 @@ (\h53 :> <<"Sre", "ZeroPageIndirectYIndexed", 2, 8>>)
 @@ (\h27 :> <<"Rla", "ZeroPage", 2, 5>>)
 @@ (\h37 :> <<"Rla", "XIndexedZeroPage", 2, 6>>)
 @@ (\h2F :> <<"Rla", "Absolute", 3, 6>>)
 @@ (\h3F :> <<"Rla", "XIndexedAbsolute", 3, 7>>)
 @@ (\h3B :> <<"Rla", "YIndexedAbsolute", 3, 7>>)
 @@ (\h23 :> <<"Rla", "XIndexedZeroPageIndirect", 2, 8>>)
 @@ (\h33 :> <<"Rla", "ZeroPageIndirectYIndexed", 2, 8>>)
 @@ (\h67 :> <<"Rra", "ZeroPage", 2, 5>>)
 @@ (\h77 :> <<"Rra", "XIndexedZeroPage", 2, 6>>)
 @@ (\h6F :> <<"Rra", "Absolute", 3, 6>>)
 @@ (\h7F :> <<"Rra", "XIndexedAbsolute", 3, 7>>)
 @@ (\h7B :> <<"Rra", "YIndexedAbsolute", 3, 7>>)
 @@ (\h63 :> <<"Rra", "XIndexedZeroPageIndirect", 2, 8>>)
 @@ (\h73 :> <<"Rra", "ZeroPageIndirectYIndexed", 2, 8>>)

\* decode that takes every opcode outside the table for a NOP
decode_unknown_is_nop(s, opcode) ==
    IF opcode \in DOMAIN OpcodeTable THEN Return(s, OpcodeTable[opcode])
    ELSE Return(s, <<"Nop", "None", 1, 2>>)

\* Cpu::decode
decode(s, opcode) ==
    IF opcode \in DOMAIN OpcodeTable THEN Return(s, OpcodeTable[opcode])
    ELSE Panic(s, "UnknownOpcode")

\* Cpu::get_op_adress
get_op_adress(s, addr_mode) ==
    IF s.err # "none" THEN s
    ELSE IF addr_mode = "Immediate" THEN
        Then(Checked(s, s.cpu.pc + 1, 16), LAMBDA p :
        Checked([p EXCEPT !.cpu.pc = p.ret], p.ret - 1, 16))
    ELSE IF addr_mode = "Absolute" THEN fetch_absolute_adress(s)
    ELSE IF addr_mode = "XIndexedAbsolute" THEN fetch_x_indexed_absolute_adress(s)
    ELSE IF addr_mode = "YIndexedAbsolute" THEN fetch_y_indexed_absolute_adress(s)
    ELSE IF addr_mode = "AbsoluteIndirect" THEN fetch_absolute_indirect_adress(s)
    ELSE IF addr_mode = "ZeroPage" THEN fetch_zero_page_adress(s)
    ELSE IF addr_mode = "XIndexedZeroPage" THEN fetch_x_indexed_zero_page_adress(s)
    ELSE IF addr_mode = "YIndexedZeroPage" THEN fetch_y_indexed_zero_page_adress(s)
    ELSE IF addr_mode = "XIndexedZeroPageIndirect"
        THEN fetch_x_indexed_zero_page_indirect_adress(s)
    ELSE IF addr_mode = "ZeroPageIndirectYIndexed"
        THEN fetch_zero_page_indirect_y_indexed_adress(s)
    ELSE IF addr_mode = "Relative" THEN fetch_relative(s)
    ELSE Panic(s, "AddrModeNotUsable")

\* u8 as i8, the wrapping i8 operations, and i8 as u8
AsI8(value)   == IF value >= 128 THEN value - 256 ELSE value
WrapI8(x)     == ((x + 128) % 256) - 128
AsU8(x)       == x % 256

\* add_to_accumulator without the carry-in
add_to_accumulator_no_carry_in(c, value) ==
    LET sum1   == c.a + value
        result == sum1 % 256
    IN  [c EXCEPT
            !.c = IF sum1 > 255 THEN 1 ELSE 0,
            !.v = IF ~(BitAnd(BitXor(c.a, value), \h80) # 0)
                     /\ (BitAnd(BitXor(c.a, result), \h80) # 0) THEN 1 ELSE 0,
            !.n = Shr(result, 7),
            !.z = IF result = 0 THEN 1 ELSE 0,
            !.a = result]

\* add_to_accumulator with V taken from the unsigned carry
add_to_accumulator_v_is_carry(c, value) ==
    LET sum1         == c.a + value
        temp         == sum1 % 256
        overflowed_1 == sum1 > 255
        sum2         == temp + c.c
        result       == sum2 % 256
        overflowed_2 == sum2 > 255
    IN  [c EXCEPT
            !.c = IF overflowed_1 \/ overflowed_2 THEN 1 ELSE 0,
            !.v = IF overflowed_1 \/ overflowed_2 THEN 1 ELSE 0,
            !.n = Shr(result, 7),
            !.z = IF result = 0 THEN 1 ELSE 0,
            !.a = result]

\* Cpu::add_to_accumulator, on the Cpu struct alone
add_to_accumulator(c, value) ==
    LET sum1         == c.a + value
        temp         == sum1 % 256
        overflowed_1 == sum1 > 255
        sum2         == temp + c.c
        result       == sum2 % 256
        overflowed_2 == sum2 > 255
    IN  [c EXCEPT
            !.c = IF overflowed_1 \/ overflowed_2 THEN 1 ELSE 0,
            !.v = IF ~(BitAnd(BitXor(c.a, value), \h80) # 0)
                     /\ (BitAnd(BitXor(c.a, result), \h80) # 0) THEN 1 ELSE 0,
            !.n = Shr(result, 7),
            !.z = IF result = 0 THEN 1 ELSE 0,
            !.a = result]

\* sub_to_accumulator adding the two's complement of the operand
sub_to_accumulator_twos_complement(c, value) ==
    add_to_accumulator(c, AsU8(WrapI8(0 - AsI8(value))))

\* Cpu::sub_to_accumulator: (value as i8).wrapping_neg().wrapping_sub(1) as u8
sub_to_accumulator(c, value) ==
    add_to_accumulator(c, AsU8(WrapI8(WrapI8(0 - AsI8(value)) - 1)))

\* Cpu::apply_adc_op
apply_adc_op(s, addr_mode) ==
    Then(get_op_adress(s, addr_mode), LAMBDA g :
    Then(Bus_read(g, g.ret), LAMBDA r :
    [r EXCEPT !.cpu = add_to_accumulator(r.cpu, r.ret)]))

\* Cpu::apply_sbc_op
apply_sbc_op(s, addr_mode) ==
    Then(get_op_adress(s, addr_mode), LAMBDA g :
    Then(Bus_read(g, g.ret), LAMBDA r :
    [r EXCEPT !.cpu = sub_to_accumulator(r.cpu, r.ret)]))

\* u8::from(bool)
U8From(b) == IF b THEN 1 ELSE 0

\* Cpu::apply_and_op
apply_and_op(s, addr_mode) ==
    Then(get_op_adress(s, addr_mode), LAMBDA g :
    Then(Bus_read(g, g.ret), LAMBDA r :
    LET result == BitAnd(r.cpu.a, r.ret)
    IN  [r EXCEPT !.cpu.z = U8From(result = 0),
                  !.cpu.n = U8From(BitAnd(result, \h80) = \h80),
                  !.cpu.a = result]))

\* Cpu::apply_asl_accumulator_op
apply_asl_accumulator_op(s) ==
    LET result == Shl(BitAnd(s.cpu.a, \h7F), 1, 8)
    IN  [s EXCEPT !.cpu.c = Shr(BitAnd(s.cpu.a, \h80), 7),
                  !.cpu.n = Shr(result, 7),
                  !.cpu.z = U8From(result = 0),
                  !.cpu.a = result]

\* Cpu::apply_asl_op
apply_asl_op(s, addr_mode) ==
    Then(get_op_adress(s, addr_mode), LAMBDA g :
    Then(Bus_read(g, g.ret), LAMBDA r :
    LET result == Shl(BitAnd(r.ret, \h7F), 1, 8)
    IN  Bus_write([r EXCEPT !.cpu.c = Shr(BitAnd(r.ret, \h80), 7),
                            !.cpu.n = Shr(result, 7),
                            !.cpu.z = U8From(result = 0)],
                  g.ret, result)))

\* apply_bit_op taking V without the shift to bit 0: C39 must notice.
apply_bit_op_no_shift(s, addr_mode) ==
    Then(get_op_adress(s, addr_mode), LAMBDA g :
    Then(Bus_read(g, g.ret), LAMBDA r :
    [r EXCEPT !.cpu.n = Shr(r.ret, 7),
              !.cpu.v = BitAnd(r.ret, \h40),
              !.cpu.z = U8From(BitAnd(r.cpu.a, r.ret) = 0)]))

\* Cpu::apply_bit_op
apply_bit_op(s, addr_mode) ==
    Then(get_op_adress(s, addr_mode), LAMBDA g :
    Then(Bus_read(g, g.ret), LAMBDA r :
    [r EXCEPT !.cpu.n = Shr(r.ret, 7),
              !.cpu.v = Shr(BitAnd(r.ret, \h40), 6),
              !.cpu.z = U8From(BitAnd(r.cpu.a, r.ret) = 0)]))

\* apply_branch without the cycle of the page crossing
apply_branch_no_crossing(s, condition) ==
    Then(fetch_relative(s), LAMBDA f :
    IF condition
    THEN [f EXCEPT !.cpu.extra_cycle = 1, !.cpu.pc = f.ret]
    ELSE f)

\* Cpu::apply_branch
apply_branch(s, condition) ==
    Then(fetch_relative(s), LAMBDA f :
    IF condition
    THEN [f EXCEPT !.cpu.extra_cycle = 1 + U8From(is_crossing(f.cpu.pc, f.ret)),
                   !.cpu.pc = f.ret]
    ELSE f)

\* Cpu::apply_brk_op
apply_brk_op(s) ==
    Then(Checked(s, s.cpu.pc + 2, 16), LAMBDA p :
    Then(stack_push([p EXCEPT !.cpu.pc = p.ret], Shr(BitAnd(p.ret, \hFF00), 8)), LAMBDA h :
    Then(stack_push(h, BitAnd(p.ret, \h00FF)), LAMBDA l :
    Then(Bus_read_u16(l, \hFFFE), LAMBDA v :
    [v EXCEPT !.cpu.pc = v.ret]))))

\* u8::overflowing_sub
overflowing_sub(x, y) == [result |-> (x - y) % 256, underflow |-> x < y]

\* apply_cmp_op with the carry of a strict comparison
apply_cmp_op_strict(s, register, addr_mode) ==
    Then(get_op_adress(s, addr_mode), LAMBDA g :
    Then(Bus_read(g, g.ret), LAMBDA r :
    [r EXCEPT !.cpu.z = IF overflowing_sub(register, r.ret).result = 0 THEN 1 ELSE 0,
              !.cpu.n = Shr(overflowing_sub(register, r.ret).result, 7),
              !.cpu.c = IF register > r.ret THEN 1 ELSE 0]))

\* Cpu::apply_cmp_op
apply_cmp_op(s, register, addr_mode) ==
    Then(get_op_adress(s, addr_mode), LAMBDA g :
    Then(Bus_read(g, g.ret), LAMBDA r :
    [r EXCEPT !.cpu.z = IF overflowing_sub(register, r.ret).result = 0 THEN 1 ELSE 0,
              !.cpu.n = Shr(overflowing_sub(register, r.ret).result, 7),
              !.cpu.c = IF ~overflowing_sub(register, r.ret).underflow THEN 1 ELSE 0]))

\* self.z = u8::from(result == 0); self.n = result >> 7
ZeroNegative(c, result) == [c EXCEPT !.z = U8From(result = 0), !.n = Shr(result, 7)]

\* Cpu::apply_dec_op
apply_dec_op(s, addr_mode) ==
    Then(get_op_adress(s, addr_mode), LAMBDA g :
    Then(Bus_read(g, g.ret), LAMBDA r :
    Bus_write([r EXCEPT !.cpu = ZeroNegative(@, (r.ret - 1) % 256)],
              g.ret, (r.ret - 1) % 256)))

\* Cpu::apply_dex_op
apply_dex_op(s) ==
    [s EXCEPT !.cpu = [ZeroNegative(@, (s.cpu.x - 1) % 256)
                       EXCEPT !.x = (s.cpu.x - 1) % 256]]

\* Cpu::apply_dey_op
apply_dey_op(s) ==
    [s EXCEPT !.cpu = [ZeroNegative(@, (s.cpu.y - 1) % 256)
                       EXCEPT !.y = (s.cpu.y - 1) % 256]]

\* Cpu::apply_eor_op
apply_eor_op(s, addr_mode) ==
    Then(get_op_adress(s, addr_mode), LAMBDA g :
    Then(Bus_read(g, g.ret), LAMBDA r :
    [r EXCEPT !.cpu = [ZeroNegative(@, BitXor(r.cpu.a, r.ret))
                       EXCEPT !.a = BitXor(r.cpu.a, r.ret)]]))

\* Cpu::apply_inc_op
apply_inc_op(s, addr_mode) ==
    Then(get_op_adress(s, addr_mode), LAMBDA g :
    Then(Bus_read(g, g.ret), LAMBDA r :
    Bus_write([r EXCEPT !.cpu = ZeroNegative(@, (r.ret + 1) % 256)],
              g.ret, (r.ret + 1) % 256)))

\* apply_inx_op with an addition that stops at 0xFF instead of wrapping:
\* C22 must notice.
apply_inx_op_saturating(s) ==
    [s EXCEPT !.cpu = [ZeroNegative(@, IF s.cpu.x = 255 THEN 255 ELSE s.cpu.x + 1)
                       EXCEPT !.x = IF s.cpu.x = 255 THEN 255 ELSE s.cpu.x + 1]]

\* Cpu::apply_inx_op
apply_inx_op(s) ==
    [s EXCEPT !.cpu = [ZeroNegative(@, (s.cpu.x + 1) % 256)
                       EXCEPT !.x = (s.cpu.x + 1) % 256]]

\* Cpu::apply_iny_op
apply_iny_op(s) ==
    [s EXCEPT !.cpu = [ZeroNegative(@, (s.cpu.y + 1) % 256)
                       EXCEPT !.y = (s.cpu.y + 1) % 256]]

\* Cpu::apply_jsr_op
apply_jsr_op(s, addr_mode) ==
    Then(get_op_adress(s, addr_mode), LAMBDA g :
    Then(Checked(g, g.cpu.pc - 1, 16), LAMBDA m :
    Then(stack_push(m, Shr(BitAnd(m.ret, \hFF00), 8)), LAMBDA h :
    Then(stack_push(h, BitAnd(m.ret, \h00FF)), LAMBDA l :
    [l EXCEPT !.cpu.pc = g.ret]))))

\* apply_ld_op that leaves Z and N alone: C24 must notice.
apply_ld_op_keeps_flags(s, addr_mode) ==
    Then(get_op_adress(s, addr_mode), LAMBDA g : Bus_read(g, g.ret))

\* Cpu::apply_ld_op: the value loaded is returned to execute
apply_ld_op(s, addr_mode) ==
    Then(get_op_adress(s, addr_mode), LAMBDA g :
    Then(Bus_read(g, g.ret), LAMBDA r :
    [r EXCEPT !.cpu = ZeroNegative(@, r.ret)]))

\* Cpu::apply_lsr_accumulator_op
apply_lsr_accumulator_op(s) ==
    [s EXCEPT !.cpu.c = BitAnd(s.cpu.a, \h01),
              !.cpu.n = 0,
              !.cpu.z = U8From(Shr(s.cpu.a, 1) = 0),
              !.cpu.a = Shr(s.cpu.a, 1)]

\* Cpu::apply_lsr_op
apply_lsr_op(s, addr_mode) ==
    Then(get_op_adress(s, addr_mode), LAMBDA g :
    Then(Bus_read(g, g.ret), LAMBDA r :
    Bus_write([r EXCEPT !.cpu.c = BitAnd(r.ret, \h01),
                        !.cpu.n = 0,
                        !.cpu.z = U8From(Shr(r.ret, 1) = 0)],
              g.ret, Shr(r.ret, 1))))

\* Cpu::apply_ora_op
apply_ora_op(s, addr_mode) ==
    Then(get_op_adress(s, addr_mode), LAMBDA g :
    Then(Bus_read(g, g.ret), LAMBDA r :
    [r EXCEPT !.cpu = [ZeroNegative(@, BitOr(r.ret, r.cpu.a))
                       EXCEPT !.a = BitOr(r.ret, r.cpu.a)]]))

\* Cpu::apply_pha_op
apply_pha_op(s) == stack_push(s, s.cpu.a)

\* Cpu::apply_php_op
apply_php_op(s) == stack_push(s, BitOr(get_status(s.cpu), \h10))

\* Cpu::apply_pla_op
apply_pla_op(s) ==
    Then(stack_pop(s), LAMBDA r :
    [r EXCEPT !.cpu = [ZeroNegative(@, r.ret) EXCEPT !.a = r.ret]])

\* Cpu::apply_plp_op
apply_plp_op(s) ==
    Then(stack_pop(s), LAMBDA r :
    [r EXCEPT !.cpu = set_status(@, BitAnd(r.ret, \hEF))])

\* Cpu::apply_rol_accumulator_op
apply_rol_accumulator_op(s) ==
    Then(Checked(s, Shl(s.cpu.a, 1, 8) + s.cpu.c, 8), LAMBDA r :
    [r EXCEPT !.cpu.c = Shr(s.cpu.a, 7),
              !.cpu.n = Shr(BitAnd(s.cpu.a, \h40), 6),
              !.cpu.z = U8From(r.ret = 0),
              !.cpu.a = r.ret])

\* apply_rol_op shifting in 0 instead of the carry, as ASL does: C23 must
\* notice.
apply_rol_op_no_carry_in(s, addr_mode) ==
    Then(get_op_adress(s, addr_mode), LAMBDA g :
    Then(Bus_read(g, g.ret), LAMBDA v :
    Then(Checked(v, Shl(v.ret, 1, 8), 8), LAMBDA r :
    Bus_write([r EXCEPT !.cpu.c = Shr(v.ret, 7),
                        !.cpu.n = Shr(BitAnd(v.ret, \h40), 6),
                        !.cpu.z = U8From(r.ret = 0)],
              g.ret, r.ret))))

\* Cpu::apply_rol_op
apply_rol_op(s, addr_mode) ==
    Then(get_op_adress(s, addr_mode), LAMBDA g :
    Then(Bus_read(g, g.ret), LAMBDA v :
    Then(Checked(v, Shl(v.ret, 1, 8) + v.cpu.c, 8), LAMBDA r :
    Bus_write([r EXCEPT !.cpu.c = Shr(v.ret, 7),
                        !.cpu.n = Shr(BitAnd(v.ret, \h40), 6),
                        !.cpu.z = U8From(r.ret = 0)],
              g.ret, r.ret))))

\* Cpu::apply_ror_accumulator_op
apply_ror_accumulator_op(s) ==
    Then(Checked(s, Shl(s.cpu.c, 7, 8) + Shr(s.cpu.a, 1), 8), LAMBDA r :
    [r EXCEPT !.cpu.n = s.cpu.c,
              !.cpu.c = BitAnd(s.cpu.a, \h01),
              !.cpu.z = U8From(r.ret = 0),
              !.cpu.a = r.ret])

\* Cpu::apply_ror_op
apply_ror_op(s, addr_mode) ==
    Then(get_op_adress(s, addr_mode), LAMBDA g :
    Then(Bus_read(g, g.ret), LAMBDA v :
    Then(Checked(v, Shl(v.cpu.c, 7, 8) + Shr(v.ret, 1), 8), LAMBDA r :
    Bus_write([r EXCEPT !.cpu.n = v.cpu.c,
                        !.cpu.c = BitAnd(v.ret, \h01),
                        !.cpu.z = U8From(r.ret = 0)],
              g.ret, r.ret))))

\* Cpu::apply_rti_op
apply_rti_op(s) ==
    Then(stack_pop(s), LAMBDA p :
    Then(stack_pop(p), LAMBDA low_pc :
    Then(stack_pop(low_pc), LAMBDA high_pc :
    [high_pc EXCEPT !.cpu = set_status([@ EXCEPT !.pc = Shl(high_pc.ret, 8, 16)
                                                       + low_pc.ret],
                                       p.ret)])))

\* Cpu::apply_rts_op
apply_rts_op(s) ==
    Then(stack_pop(s), LAMBDA low_pc :
    Then(stack_pop(low_pc), LAMBDA high_pc :
    Then(Checked(high_pc, Shl(high_pc.ret, 8, 16) + low_pc.ret + 1, 16), LAMBDA r :
    [r EXCEPT !.cpu.pc = r.ret])))

\* Cpu::apply_lax_op
apply_lax_op(s, addr_mode) ==
    Then(get_op_adress(s, addr_mode), LAMBDA g :
    Then(Bus_read(g, g.ret), LAMBDA r :
    [r EXCEPT !.cpu = [ZeroNegative(@, r.ret) EXCEPT !.a = r.ret, !.x = r.ret]]))

\* Cpu::apply_sax_op
apply_sax_op(s, addr_mode) ==
    Then(get_op_adress(s, addr_mode), LAMBDA g :
    Bus_write(g, g.ret, BitAnd(g.cpu.x, g.cpu.a)))

\* Cpu::apply_dcp_op
apply_dcp_op(s, addr_mode) ==
    Then(get_op_adress(s, addr_mode), LAMBDA g :
    Then(Bus_read(g, g.ret), LAMBDA r :
    Then(Bus_write(r, g.ret, (r.ret - 1) % 256), LAMBDA w :
    LET value == (r.ret - 1) % 256
    IN  [w EXCEPT !.cpu = [ZeroNegative(@, (w.cpu.a - value) % 256)
                           EXCEPT !.c = U8From(value <= w.cpu.a)]])))

\* Cpu::apply_isb_op
apply_isb_op(s, addr_mode) ==
    Then(get_op_adress(s, addr_mode), LAMBDA g :
    Then(Bus_read(g, g.ret), LAMBDA r :
    Then(Bus_write(r, g.ret, (r.ret + 1) % 256), LAMBDA w :
    [w EXCEPT !.cpu = sub_to_accumulator(@, (r.ret + 1) % 256)])))

\* Cpu::apply_slo_op
apply_slo_op(s, addr_mode) ==
    Then(get_op_adress(s, addr_mode), LAMBDA g :
    Then(Bus_read(g, g.ret), LAMBDA r :
    Then(Bus_write(r, g.ret, Shl(r.ret, 1, 8)), LAMBDA w :
    LET a == BitOr(w.cpu.a, Shl(r.ret, 1, 8))
    IN  [w EXCEPT !.cpu = [ZeroNegative(@, a) EXCEPT !.a = a, !.c = Shr(r.ret, 7)]])))

\* Cpu::apply_sre_op
apply_sre_op(s, addr_mode) ==
    Then(get_op_adress(s, addr_mode), LAMBDA g :
    Then(Bus_read(g, g.ret), LAMBDA r :
    Then(Bus_write(r, g.ret, Shr(r.ret, 1)), LAMBDA w :
    LET a == BitXor(w.cpu.a, Shr(r.ret, 1))
    IN  [w EXCEPT !.cpu = [ZeroNegative(@, a) EXCEPT !.a = a,
                                                      !.c = BitAnd(r.ret, \h01)]])))

\* Cpu::apply_rla_op
apply_rla_op(s, addr_mode) ==
    Then(get_op_adress(s, addr_mode), LAMBDA g :
    Then(Bus_read(g, g.ret), LAMBDA r :
    Then(Bus_write(r, g.ret, BitOr(Shl(r.ret, 1, 8), BitAnd(r.cpu.c, \h01))), LAMBDA w :
    LET a == BitAnd(w.cpu.a, BitOr(Shl(r.ret, 1, 8), BitAnd(r.cpu.c, \h01)))
    IN  [w EXCEPT !.cpu = [ZeroNegative(@, a) EXCEPT !.a = a, !.c = Shr(r.ret, 7)]])))

\* apply_rra_op adding with the carry the instruction started with, not the
\* bit rotated out: C33 must notice.
apply_rra_op_carry_kept(s, addr_mode) ==
    Then(get_op_adress(s, addr_mode), LAMBDA g :
    Then(Bus_read(g, g.ret), LAMBDA r :
    Then(Bus_write(r, g.ret, BitOr(Shl(r.cpu.c, 7, 8), Shr(r.ret, 1))), LAMBDA w :
    [w EXCEPT !.cpu = add_to_accumulator(@, BitOr(Shl(r.cpu.c, 7, 8), Shr(r.ret, 1)))])))

\* Cpu::apply_rra_op
apply_rra_op(s, addr_mode) ==
    Then(get_op_adress(s, addr_mode), LAMBDA g :
    Then(Bus_read(g, g.ret), LAMBDA r :
    Then(Bus_write(r, g.ret, BitOr(Shl(r.cpu.c, 7, 8), Shr(r.ret, 1))), LAMBDA w :
    [w EXCEPT !.cpu = add_to_accumulator([@ EXCEPT !.c = BitAnd(r.ret, \h01)],
                                         BitOr(Shl(r.cpu.c, 7, 8), Shr(r.ret, 1)))])))

\* Transfer that leaves Z and N alone, as TXS does: C25 must notice.
Transfer_no_flags(s, register, value) == [s EXCEPT !.cpu[register] = value]

\* a register transfer of execute: the flags follow the value moved
Transfer(s, register, value) ==
    [s EXCEPT !.cpu = [ZeroNegative(@, value) EXCEPT ![register] = value]]

\* the stores of execute: Sta, Stx, Sty
Store(s, addr_mode, value) ==
    Then(get_op_adress(s, addr_mode), LAMBDA g : Bus_write(g, g.ret, value))

\* the loads of execute: Lda, Ldx, Ldy
Load(s, addr_mode, register) ==
    Then(apply_ld_op(s, addr_mode), LAMBDA r : [r EXCEPT !.cpu[register] = r.ret])

\* Cpu::execute
execute(s, instruction, addr_mode) ==
    IF s.err # "none" THEN s ELSE
    CASE instruction = "Adc" -> apply_adc_op(s, addr_mode)
      [] instruction = "And" -> apply_and_op(s, addr_mode)
      [] instruction = "Asl" -> IF addr_mode = "Accumulator"
                                THEN apply_asl_accumulator_op(s)
                                ELSE apply_asl_op(s, addr_mode)
      [] instruction = "Bcc" -> apply_branch(s, s.cpu.c = 0)
      [] instruction = "Bcs" -> apply_branch(s, s.cpu.c # 0)
      [] instruction = "Beq" -> apply_branch(s, s.cpu.z # 0)
      [] instruction = "Bit" -> apply_bit_op(s, addr_mode)
      [] instruction = "Bmi" -> apply_branch(s, s.cpu.n # 0)
      [] instruction = "Bne" -> apply_branch(s, s.cpu.z = 0)
      [] instruction = "Bpl" -> apply_branch(s, s.cpu.n = 0)
      [] instruction = "Brk" -> apply_brk_op(s)
      [] instruction = "Bvc" -> apply_branch(s, s.cpu.v = 0)
      [] instruction = "Bvs" -> apply_branch(s, s.cpu.v # 0)
      [] instruction = "Clc" -> [s EXCEPT !.cpu.c = 0]
      [] instruction = "Cld" -> [s EXCEPT !.cpu.d = 0]
      [] instruction = "Cli" -> [s EXCEPT !.cpu.i = 0]
      [] instruction = "Clv" -> [s EXCEPT !.cpu.v = 0]
      [] instruction = "Cmp" -> apply_cmp_op(s, s.cpu.a, addr_mode)
      [] instruction = "Cpx" -> apply_cmp_op(s, s.cpu.x, addr_mode)
      [] instruction = "Cpy" -> apply_cmp_op(s, s.cpu.y, addr_mode)
      [] instruction = "Dec" -> apply_dec_op(s, addr_mode)
      [] instruction = "Dex" -> apply_dex_op(s)
      [] instruction = "Dey" -> apply_dey_op(s)
      [] instruction = "Eor" -> apply_eor_op(s, addr_mode)
      [] instruction = "Inc" -> apply_inc_op(s, addr_mode)
      [] instruction = "Inx" -> apply_inx_op(s)
      [] instruction = "Iny" -> apply_iny_op(s)
      [] instruction = "Jmp" -> Then(get_op_adress(s, addr_mode), LAMBDA g :
                                [g EXCEPT !.cpu.pc = g.ret])
      [] instruction = "Jsr" -> apply_jsr_op(s, addr_mode)
      [] instruction = "Lda" -> Load(s, addr_mode, "a")
      [] instruction = "Ldx" -> Load(s, addr_mode, "x")
      [] instruction = "Ldy" -> Load(s, addr_mode, "y")
      [] instruction = "Lsr" -> IF addr_mode = "Accumulator"
                                THEN apply_lsr_accumulator_op(s)
                                ELSE apply_lsr_op(s, addr_mode)
      [] instruction = "Ora" -> apply_ora_op(s, addr_mode)
      [] instruction = "Pha" -> apply_pha_op(s)
      [] instruction = "Php" -> apply_php_op(s)
      [] instruction = "Pla" -> apply_pla_op(s)
      [] instruction = "Plp" -> apply_plp_op(s)
      [] instruction = "Rol" -> IF addr_mode = "Accumulator"
                                THEN apply_rol_accumulator_op(s)
                                ELSE apply_rol_op(s, addr_mode)
      [] instruction = "Ror" -> IF addr_mode = "Accumulator"
                                THEN apply_ror_accumulator_op(s)
                                ELSE apply_ror_op(s, addr_mode)
      [] instruction = "Rti" -> apply_rti_op(s)
      [] instruction = "Rts" -> apply_rts_op(s)
      [] instruction = "Sbc" -> apply_sbc_op(s, addr_mode)
      [] instruction = "Sec" -> [s EXCEPT !.cpu.c = 1]
      [] instruction = "Sed" -> [s EXCEPT !.cpu.d = 1]
      [] instruction = "Sei" -> [s EXCEPT !.cpu.i = 1]
      [] instruction = "Sta" -> Store(s, addr_mode, s.cpu.a)
      [] instruction = "Stx" -> Store(s, addr_mode, s.cpu.x)
      [] instruction = "Sty" -> Store(s, addr_mode, s.cpu.y)
      [] instruction = "Tax" -> Transfer(s, "x", s.cpu.a)
      [] instruction = "Tay" -> Transfer(s, "y", s.cpu.a)
      [] instruction = "Tsx" -> Transfer(s, "x", s.cpu.sp)
      [] instruction = "Txa" -> Transfer(s, "a", s.cpu.x)
      [] instruction = "Txs" -> [s EXCEPT !.cpu.sp = s.cpu.x]
      [] instruction = "Tya" -> Transfer(s, "a", s.cpu.y)
      [] instruction = "Nop" -> s
      [] instruction = "Dop" -> Then(Checked(s, s.cpu.pc + 1, 16), LAMBDA p :
                                [p EXCEPT !.cpu.pc = p.ret])
      [] instruction = "Top" -> Then(Checked(s, s.cpu.pc + 2, 16), LAMBDA p :
                                [p EXCEPT !.cpu.pc = p.ret])
      [] instruction = "Lax" -> apply_lax_op(s, addr_mode)
      [] instruction = "Sax" -> apply_sax_op(s, addr_mode)
      [] instruction = "Dcp" -> apply_dcp_op(s, addr_mode)
      [] instruction = "Isb" -> apply_isb_op(s, addr_mode)
      [] instruction = "Slo" -> apply_slo_op(s, addr_mode)
      [] instruction = "Sre" -> apply_sre_op(s, addr_mode)
      [] instruction = "Rla" -> apply_rla_op(s, addr_mode)
      [] instruction = "Rra" -> apply_rra_op(s, addr_mode)

\* the loop of run_with_callback that never breaks
IsBrk_never(instruction) == FALSE

\* if let Instruction::Brk = instr
IsBrk(instruction) == instruction = "Brk"

\* run_with_callback executing the BRK it breaks on: C37 must notice.
run_iteration_brk_executed(s) ==
    Then(fetch(s), LAMBDA f :
    Then(decode(f, f.ret), LAMBDA d :
    Return(execute([d EXCEPT !.cpu.extra_cycle = 0], d.ret[1], d.ret[2]),
           [entry |-> d.ret, break |-> IsBrk(d.ret[1])])))

\* Cpu::run_with_callback, one turn of the loop after the callback: fetch,
\* decode, then break or execute.  Returns the decoded entry and whether the
\* loop breaks.
run_iteration(s) ==
    Then(fetch(s), LAMBDA f :
    Then(decode(f, f.ret), LAMBDA d :
    IF IsBrk(d.ret[1])
    THEN Return(d, [entry |-> d.ret, break |-> TRUE])
    ELSE Return(execute([d EXCEPT !.cpu.extra_cycle = 0], d.ret[1], d.ret[2]),
                [entry |-> d.ret, break |-> FALSE])))

\* Cpu::load_and_run, the writes of the program from its byte i on
RECURSIVE write_program(_, _, _)
write_program(s, pgr, i) ==
    IF i > Len(pgr) THEN s
    ELSE write_program(Bus_write(s, \h0200 + (i - 1), pgr[i]), pgr, i + 1)

\* Cpu::load_and_run up to the call of run
load_program(s, pgr) ==
    Then(write_program(s, pgr, 1), LAMBDA w :
    Then(reset(w), LAMBDA r :
    [r EXCEPT !.cpu.pc = \h0200, !.ret = 0]))


\* trace, the part between decode and the restoring of pc: the operand
\* bytes are read at pc + 1 and pc + 2, get_op_adress is called as execute
\* would call it, and the byte at the effective address is read for the line
trace_operand(s, pc, instruction, addr_mode, size) ==
    IF size = 1 THEN s
    ELSE IF size = 2 THEN
        Then(Checked(s, pc + 1, 16), LAMBDA a :
        Then(Bus_read(a, a.ret), LAMBDA arg :
        Then(get_op_adress(arg, addr_mode), LAMBDA g :
        IF addr_mode \in {"Immediate", "Relative"} THEN g
        ELSE IF addr_mode \in {"ZeroPage", "XIndexedZeroPage", "YIndexedZeroPage",
                               "XIndexedZeroPageIndirect"}
            THEN Bus_read(g, g.ret)
        ELSE IF addr_mode = "ZeroPageIndirectYIndexed" THEN
            Then(Bus_read(g, arg.ret), LAMBDA lo :
            Then(Bus_read(lo, (arg.ret + 1) % 256), LAMBDA hi :
            Bus_read(hi, g.ret)))
        ELSE Panic(g, "UnexpectedAddrMode"))))
    ELSE IF size = 3 THEN
        Then(Checked(s, pc + 1, 16), LAMBDA a :
        Then(Bus_read(a, a.ret), LAMBDA lo_byte :
        Then(Checked(lo_byte, pc + 2, 16), LAMBDA b :
        Then(Bus_read(b, b.ret), LAMBDA hi_byte :
        Then(get_op_adress(hi_byte, addr_mode), LAMBDA g :
        IF addr_mode = "Absolute" THEN
            IF instruction \in {"Jmp", "Jsr"} THEN g ELSE Bus_read(g, g.ret)
        ELSE IF addr_mode \in {"XIndexedAbsolute", "YIndexedAbsolute"}
            THEN Bus_read(g, g.ret)
        ELSE IF addr_mode = "AbsoluteIndirect" THEN g
        ELSE Panic(g, "UnexpectedAddrMode"))))))
    ELSE Panic(s, "UnexpectedSize")

\* trace.  Returns the numbers of the line: pc, the opcode and A, X, Y, P, SP
\* as they are when the line is formatted.
trace(s) ==
    Then(fetch(s), LAMBDA f :
    Then(decode(f, f.ret), LAMBDA d :
    Then(trace_operand(d, s.cpu.pc, d.ret[1], d.ret[2], d.ret[3]), LAMBDA o :
    Return([o EXCEPT !.cpu.pc = s.cpu.pc],
           [pc |-> s.cpu.pc, opcode |-> f.ret, a |-> o.cpu.a, x |-> o.cpu.x,
            y |-> o.cpu.y, p |-> get_status(o.cpu), sp |-> o.cpu.sp]))))

----------------------------------------------------------------------------
(* The cartridges the bus is built on.                                     *)

Mirrorings == {"Vertical", "Horizontal", "FourScreen"}

\* rom::test::test_rom with mapper::test::test_mapper: an empty NROM
test_rom ==
    [mapper    |-> Nrom_new(NewArray(16384 * 2, 0), NewArray(8192, 0)),
     mirroring |-> "Vertical"]

\* Rom::from_ines for a file of prg 16 KiB banks and chr 8 KiB banks whose
\* PRG bytes are 0 but for a few marked cells
PrgMarks(len) ==
    [j \in {0, 1, len - 4, len - 1} |-> IF j < 2 THEN \hA0 + j ELSE \hB0 + (len - j)]

ines_rom(prg, chr, mirroring) ==
    [mapper    |-> Nrom_new([NewArray(16384 * prg, 0) EXCEPT !.cells = PrgMarks(16384 * prg)],
                            NewArray(8192 * chr, 0)),
     mirroring |-> mirroring]

----------------------------------------------------------------------------
(* The state machine.                                                      *)

\* the machine the operations act on
Machine == [cpu |-> cpu, bus |-> bus, err |-> err, ret |-> 0]

\* the machine as it was before the last operation
PreMachine == [cpu |-> pre.cpu, bus |-> pre.bus, err |-> "none", ret |-> 0]

\* the record of an operation: its name, its arguments, the value it
\* returned (0 when it returned none) and the stack pointer it started from
NoOp == [op |-> "none", adress |-> 0, value |-> 0, ret |-> 0, sp |-> 0]

\* An operation started in machine s0 and ended in machine r: its effects
\* (those made before a panic included) become the state, the operation
\* becomes the last one, and s0 is kept as the state it started from.
CommitAll(s0, r, name, adress, value, loop) ==
    /\ cpu'   = r.cpu
    /\ bus'   = r.bus
    /\ err'   = r.err
    /\ last'  = [op |-> name, adress |-> adress, value |-> value,
                 ret |-> IF r.err = "none" THEN r.ret ELSE 0, sp |-> s0.cpu.sp]
    /\ prev'  = last
    /\ pre'   = [cpu |-> s0.cpu, bus |-> s0.bus]
    /\ steps' = steps + 1
    /\ run'   = loop
    /\ UNCHANGED overflow_checks

\* An operation outside the run loop
CommitFrom(s0, r, name, adress, value) == CommitAll(s0, r, name, adress, value, run)

\* An operation started in the current state
Commit(r, name, adress, value) == CommitFrom(Machine, r, name, adress, value)

\* run_with_callback has not been called
NoRun == [phase |-> "idle", callbacks |-> 0, seen |-> <<>>, opcodes |-> <<>>,
          cycles |-> <<>>]

InitAll(c, b, builds, loop) ==
    /\ cpu = c
    /\ bus = b
    /\ err = "none"
    /\ overflow_checks \in builds
    /\ last = NoOp
    /\ prev = NoOp
    /\ pre = [cpu |-> c, bus |-> b]
    /\ steps = 0
    /\ run = loop

InitWith(c, b, builds) == InitAll(c, b, builds, NoRun)

----------------------------------------------------------------------------
(* SpecBus: a driver reading and writing the bus of a new Bus.             *)

MaxBusOps == 3

BusRoms == {test_rom, ines_rom(1, 1, "Horizontal")}

BusAddrs ==
    {\h0000, \h1800, \h1FFF,
     \h2000, \h2002, \h2006, \h2007,
     \h2008, \h200A, \h3FFE, \h3FFF,
     \h4014, \h401F, \h4020, \h8000, \hFFFF}

BusValues == {\h00, \h25, \h3F}

\* Bus::read and Bus::write do no arithmetic that can overflow: one build.
InitBus == \E rom \in BusRoms : InitWith(Cpu_new, Bus_new(rom), {TRUE})

BusReadOp ==
    /\ err = "none"
    /\ steps < MaxBusOps
    /\ \E adress \in BusAddrs :
          Commit(Bus_read(Machine, adress), "read", adress, 0)

BusWriteOp ==
    /\ err = "none"
    /\ steps < MaxBusOps
    /\ \E adress \in BusAddrs, value \in BusValues :
          Commit([Bus_write(Machine, adress, value) EXCEPT !.ret = 0],
                 "write", adress, value)

NextBus == BusReadOp \/ BusWriteOp

SpecBus == InitBus /\ [][NextBus]_vars

----------------------------------------------------------------------------
(* Claims about the bus, checked under SpecBus.                            *)

\* C1: RAM mirroring.  After a write of v at a RAM address a + 0x800*k
\* (a in 0x0000..=0x07FF, k in 0..3) the write has succeeded and a read at
\* a + 0x800*j returns v for each j in 0..3, whatever was read or written
\* before.
C1_RamMirroring ==
    (last.op = "write" /\ last.adress <= \h1FFF) =>
        /\ err = "none"
        /\ \A j \in 0 .. 3 :
              LET a == last.adress % \h800
                  r == Bus_read(Machine, a + \h800 * j)
              IN  r.err = "none" /\ r.ret = last.value

\* C1 witness: a byte written through one mirror is overwritten through
\* another mirror of the same cell.
C1_Witness ==
    /\ err = "none"
    /\ last.op = "write" /\ prev.op = "write"
    /\ last.adress <= \h1FFF /\ prev.adress <= \h1FFF
    /\ last.adress # prev.adress
    /\ last.adress % \h800 = prev.adress % \h800
    /\ last.value # prev.value /\ last.value # 0

\* C2: PPU register mirroring.  A read or a write at an address a in
\* 0x2008..=0x3FFF ends as the same operation at a & 0x2007 does from the
\* same state: the same byte or the same failure, and the same bus.
C2_PpuMirroring ==
    (last.op \in {"read", "write"} /\ last.adress >= \h2008 /\ last.adress <= \h3FFF) =>
        LET folded == BitAnd(last.adress, \h2007)
            r == IF last.op = "read"
                 THEN Bus_read(PreMachine, folded)
                 ELSE Bus_write(PreMachine, folded, last.value)
        IN  /\ folded >= \h2000 /\ folded <= \h2007
            /\ r.err = err
            /\ r.bus = bus
            /\ (r.err = "none" /\ last.op = "read") => r.ret = last.ret

\* C2 witness: a read through the mirror of the data port 0x2007 that
\* returned a byte and advanced the VRAM address.
C2_Witness ==
    /\ err = "none"
    /\ last.op = "read" /\ last.adress = \h3FFF
    /\ bus.ppu.addr.value # pre.bus.ppu.addr.value
    /\ prev.op = "write"

\* C3: a read at a write-only register fails as WriteOnlyRead in every bus
\* state: the read that was made did, and a read made now would.
C3_WriteOnlyRead ==
    /\ (last.op = "read"
        /\ last.adress \in {\h2000, \h2001, \h2003, \h2005, \h2006, \h4014})
           => err = "WriteOnlyRead"
    /\ err = "none" =>
          \A adress \in {\h2000, \h2001, \h2003, \h2005, \h2006, \h4014} :
              Bus_read(Machine, adress).err = "WriteOnlyRead"

\* C3 witness: the DMA register 0x4014 was read after the bus had been
\* written to.
C3_Witness ==
    /\ last.op = "read" /\ last.adress = \h4014
    /\ prev.op = "write"
    /\ err = "WriteOnlyRead"

----------------------------------------------------------------------------
(* SpecStack: pushes and pops on the hardware stack, from every stack      *)
(* pointer a program can set with TXS, in both builds.                     *)

MaxStackOps == 3

StackValues == {\h00, \h25, \h80, \hFF}

InitStack ==
    \E sp \in Byte :
        InitWith([Cpu_new EXCEPT !.sp = sp], Bus_new(test_rom), BOOLEAN)

StackPushOp ==
    /\ err = "none"
    /\ steps < MaxStackOps
    /\ \E value \in StackValues :
          Commit([stack_push(Machine, value) EXCEPT !.ret = 0], "stack_push", 0, value)

StackPopOp ==
    /\ err = "none"
    /\ steps < MaxStackOps
    /\ Commit(stack_pop(Machine), "stack_pop", 0, 0)

NextStack == StackPushOp \/ StackPopOp

SpecStack == InitStack /\ [][NextStack]_vars

----------------------------------------------------------------------------
(* Claims about the stack, checked under SpecStack.                        *)

\* C4: stack round trip.  For every stack pointer and byte v, stack_push(v)
\* stores v at 0x0100 + sp and decrements sp, and a stack_pop right after
\* it returns v and leaves sp as it was before the push.
C4_StackRoundTrip ==
    /\ last.op = "stack_push" =>
          /\ err = "none"
          /\ ArrGet(bus.cpu_ram, \h0100 + last.sp) = last.value
          /\ cpu.sp = (last.sp - 1) % 256
    /\ (last.op = "stack_pop" /\ prev.op = "stack_push") =>
          /\ err = "none"
          /\ last.ret = prev.value
          /\ cpu.sp = prev.sp

\* C4, with the stack pointers left out at which the push or the pop
\* leaves the 8 bits (the case C5 is about): the round trip holds.
C4_RoundTripInsidePage ==
    /\ (last.op = "stack_push" /\ last.sp # 0) =>
          /\ err = "none"
          /\ ArrGet(bus.cpu_ram, \h0100 + last.sp) = last.value
          /\ cpu.sp = last.sp - 1
    /\ (last.op = "stack_pop" /\ prev.op = "stack_push" /\ prev.sp # 0) =>
          /\ err = "none"
          /\ last.ret = prev.value
          /\ cpu.sp = prev.sp

\* C5: the stack pointer wraps on 8 bits.  A push at sp = 0x00 writes at
\* 0x0100 and leaves sp = 0xFF, a pop at sp = 0xFF sets sp = 0x00 and reads
\* 0x0100, and neither fails.
C5_StackPointerWraps ==
    /\ (last.op = "stack_push" /\ last.sp = \h00) =>
          /\ err = "none"
          /\ ArrGet(bus.cpu_ram, \h0100) = last.value
          /\ cpu.sp = \hFF
    /\ (last.op = "stack_pop" /\ last.sp = \hFF) =>
          /\ err = "none"
          /\ cpu.sp = \h00
          /\ last.ret = ArrGet(pre.bus.cpu_ram, \h0100)

\* C5 in the build without overflow checks: there the stack pointer wraps.
C5_WrapsWithoutOverflowChecks == ~overflow_checks => C5_StackPointerWraps

----------------------------------------------------------------------------
(* SpecStatus: the status byte unpacked into the flags and packed again,   *)
(* as tests::test_status does.                                             *)

MaxStatusOps == 1

InitStatus == InitWith(Cpu_new, Bus_new(test_rom), {TRUE})

\* cpu.set_status(p) followed by cpu.get_status()
SetStatusOp ==
    /\ err = "none"
    /\ steps < MaxStatusOps
    /\ \E p \in Byte :
          LET c == set_status(cpu, p)
          IN  Commit([Machine EXCEPT !.cpu = c, !.ret = get_status(c)],
                     "set_status", 0, p)

NextStatus == SetStatusOp

SpecStatus == InitStatus /\ [][NextStatus]_vars

\* C6: status packing.  set_status(p) followed by get_status() returns
\* p | 0b00100000, the flags being packed in the order N V 1 B D I Z C from
\* bit 7 to bit 0; get_status() has bit 5 set in every state.
C6_StatusPacking ==
    /\ BitAnd(get_status(cpu), \h20) = \h20
    /\ last.op = "set_status" =>
          /\ last.ret = BitOr(last.value, \h20)
          /\ last.ret = get_status(cpu)
          /\ last.ret = cpu.n * 128 + cpu.v * 64 + 32 + cpu.b * 16
                        + cpu.d * 8 + cpu.i * 4 + cpu.z * 2 + cpu.c
          /\ \A f \in {"n", "v", "b", "d", "i", "z", "c"} : cpu[f] \in Bit

\* C6 witness: a byte with bit 5 clear and B set was unpacked and packed.
C6_Witness ==
    /\ last.op = "set_status"
    /\ BitAnd(last.value, \h20) = 0
    /\ BitAnd(last.value, \h10) = \h10
    /\ last.ret # last.value

----------------------------------------------------------------------------
(* SpecAlu: ADC and SBC with an immediate operand, for every accumulator,  *)
(* operand, carry and decimal flag.  The state is that of the run loop     *)
(* after the opcode at 0x0200 has been fetched: pc is at the operand byte, *)
(* which the action places in RAM as load_and_run places the program.      *)

OperandAt == \h0201

InitAlu ==
    \E a \in Byte, c \in Bit, d \in Bit :
        InitWith([Cpu_new EXCEPT !.pc = OperandAt, !.a = a, !.c = c, !.d = d],
                 Bus_new(test_rom), {TRUE})

\* The machine with the operand byte m of the instruction in place
WithOperand(m) == Bus_write(Machine, cpu.pc, m)

AdcOp ==
    /\ err = "none"
    /\ steps = 0
    /\ \E m \in Byte :
          LET s0 == WithOperand(m)
          IN  CommitFrom(s0, [apply_adc_op(s0, "Immediate") EXCEPT !.ret = 0],
                         "adc", cpu.pc, m)

SbcOp ==
    /\ err = "none"
    /\ steps = 0
    /\ \E m \in Byte :
          LET s0 == WithOperand(m)
          IN  CommitFrom(s0, [apply_sbc_op(s0, "Immediate") EXCEPT !.ret = 0],
                         "sbc", cpu.pc, m)

NextAlu == AdcOp \/ SbcOp

SpecAlu == InitAlu /\ [][NextAlu]_vars

\* C7: ADC arithmetic.  For every A, M and carry-in, after ADC the 9-bit
\* value C_out * 256 + A_out equals (A + M + C_in) modulo 512.
C7_AdcArithmetic ==
    last.op = "adc" =>
        /\ err = "none"
        /\ cpu.c * 256 + cpu.a = (pre.cpu.a + last.value + pre.cpu.c) % 512

\* C7 witness: an ADC whose sum needed both the carry-in and the carry-out.
C7_Witness ==
    /\ last.op = "adc"
    /\ pre.cpu.a = \hFF /\ last.value = \h00 /\ pre.cpu.c = 1
    /\ cpu.a = \h00 /\ cpu.c = 1

\* C8: ADC flags.  With r = (A + M + C_in) mod 256 : V is set exactly when
\* A and M have the same bit 7 and r has another bit 7 than A; N is bit 7 of
\* r; Z is set exactly when r = 0; the decimal flag does not change r.
C8_AdcFlags ==
    last.op = "adc" =>
        LET A  == pre.cpu.a
            M  == last.value
            r  == (A + M + pre.cpu.c) % 256
            b7(x) == x \div 128
        IN  /\ cpu.a = r
            /\ cpu.v = IF b7(A) = b7(M) /\ b7(r) # b7(A) THEN 1 ELSE 0
            /\ cpu.n = b7(r)
            /\ cpu.z = IF r = 0 THEN 1 ELSE 0
            /\ cpu.d = pre.cpu.d
            /\ apply_adc_op([PreMachine EXCEPT !.cpu.d = 1 - pre.cpu.d],
                            "Immediate").cpu.a = r

\* C8 witness: a signed overflow in decimal mode, 0x50 + 0x50 = 0xA0.
C8_Witness ==
    /\ last.op = "adc"
    /\ pre.cpu.a = \h50 /\ last.value = \h50 /\ pre.cpu.c = 0 /\ pre.cpu.d = 1
    /\ cpu.a = \hA0 /\ cpu.v = 1 /\ cpu.n = 1 /\ cpu.z = 0

\* C9: SBC is ADC of the one's complement.  SBC with operand M yields the
\* same A, C, V, N and Z as ADC with operand M ^ 0xFF from the same state.
C9_SbcIsAdcOfComplement ==
    last.op = "sbc" =>
        LET complemented == Bus_write(PreMachine, last.adress,
                                      BitXor(last.value, \hFF))
            adc          == apply_adc_op(complemented, "Immediate")
        IN  /\ err = "none" /\ adc.err = "none"
            /\ \A f \in {"a", "c", "v", "n", "z"} : cpu[f] = adc.cpu[f]

\* C9 witness: 0x50 - 0xF0 with the carry set borrows and gives 0x60.
C9_Witness ==
    /\ last.op = "sbc"
    /\ pre.cpu.a = \h50 /\ last.value = \hF0 /\ pre.cpu.c = 1
    /\ cpu.a = \h60 /\ cpu.c = 0

----------------------------------------------------------------------------
(* SpecCmp: CMP, CPX and CPY with an immediate operand, for every register *)
(* value and operand.  The three registers hold different values.          *)

InitCmp ==
    \E reg \in Byte :
        InitWith([Cpu_new EXCEPT !.pc = OperandAt, !.a = reg,
                                 !.x = (reg + 85) % 256,
                                 !.y = (reg + 170) % 256],
                 Bus_new(test_rom), {TRUE})

CompareOp(name, register) ==
    /\ err = "none"
    /\ steps = 0
    /\ \E m \in Byte :
          LET s0 == WithOperand(m)
          IN  CommitFrom(s0, [apply_cmp_op(s0, register, "Immediate") EXCEPT !.ret = 0],
                         name, cpu.pc, m)

CmpOp == CompareOp("cmp", cpu.a)

CpxOp == CompareOp("cpx", cpu.x)

CpyOp == CompareOp("cpy", cpu.y)

NextCmp == CmpOp \/ CpxOp \/ CpyOp

SpecCmp == InitCmp /\ [][NextCmp]_vars

\* C10: CMP/CPX/CPY.  After the compare of the register reg with the
\* operand M : C = 1 exactly when reg >= M, Z = 1 exactly when reg = M, N is
\* bit 7 of (reg - M) mod 256, and no register has changed.
C10_Compare ==
    last.op \in {"cmp", "cpx", "cpy"} =>
        LET reg == CASE last.op = "cmp" -> pre.cpu.a
                     [] last.op = "cpx" -> pre.cpu.x
                     [] last.op = "cpy" -> pre.cpu.y
            M   == last.value
        IN  /\ err = "none"
            /\ cpu.c = IF reg >= M THEN 1 ELSE 0
            /\ cpu.z = IF reg = M THEN 1 ELSE 0
            /\ cpu.n = ((reg - M) % 256) \div 128
            /\ cpu.a = pre.cpu.a /\ cpu.x = pre.cpu.x /\ cpu.y = pre.cpu.y

\* C10 witness: CPX of a register below the operand, 0x10 against 0x20.
C10_Witness ==
    /\ last.op = "cpx"
    /\ pre.cpu.x = \h10 /\ last.value = \h20
    /\ cpu.c = 0 /\ cpu.z = 0 /\ cpu.n = 1 /\ cpu.x = \h10

----------------------------------------------------------------------------
(* SpecReset: Cpu::reset from CPU states with every register and flag      *)
(* away from its reset value, on cartridges with different reset vectors.  *)

MaxResetOps == 2

ResetRoms == {test_rom, ines_rom(1, 1, "Horizontal"), ines_rom(2, 1, "Vertical")}

ResetBytes == {\h00, \h25, \hFF}

InitReset ==
    \E rom \in ResetRoms, a \in ResetBytes, x \in ResetBytes, y \in ResetBytes,
       sp \in ResetBytes, p \in {\h00, \hDB, \hFF} :
        InitWith([set_status(Cpu_new, p) EXCEPT !.pc = \h0200, !.sp = sp,
                                                !.a = a, !.x = x, !.y = y],
                 Bus_write([cpu |-> Cpu_new, bus |-> Bus_new(rom),
                            err |-> "none", ret |-> 0], \h0010, \h25).bus,
                 {TRUE})

ResetOp ==
    /\ err = "none"
    /\ steps < MaxResetOps
    /\ Commit([reset(Machine) EXCEPT !.ret = 0], "reset", 0, 0)

\* a program runs between two resets: the flags and the stack pointer move
ResetScrambleOp ==
    /\ err = "none"
    /\ steps < MaxResetOps
    /\ \E p \in {\h00, \hDB, \hFF} :
          Commit([Machine EXCEPT !.cpu = [set_status(cpu, p) EXCEPT !.sp = \h80]],
                 "set_status", 0, p)

NextReset == ResetOp \/ ResetScrambleOp

SpecReset == InitReset /\ [][NextReset]_vars

\* C11: reset.  From any CPU state, reset sets sp = 0xFD, the packed status
\* 0b00100100 (I set, N V B D Z C clear) and pc to the little-endian word
\* read at 0xFFFC, and leaves A, X, Y and all memory unchanged.
C11_Reset ==
    last.op = "reset" =>
        /\ err = "none"
        /\ cpu.sp = \hFD
        /\ get_status(cpu) = \h24
        /\ cpu.i = 1
        /\ \A f \in {"n", "v", "b", "d", "z", "c"} : cpu[f] = 0
        /\ cpu.pc = Bus_read(PreMachine, \hFFFC).ret
                    + 256 * Bus_read(PreMachine, \hFFFD).ret
        /\ cpu.a = pre.cpu.a /\ cpu.x = pre.cpu.x /\ cpu.y = pre.cpu.y
        /\ bus = pre.bus

\* C11 witness: a reset that moved sp, status and pc and kept A, X and Y.
C11_Witness ==
    /\ last.op = "reset"
    /\ pre.cpu.sp = \h25 /\ get_status(pre.cpu) = \hFF /\ pre.cpu.pc = \h0200
    /\ pre.cpu.a = \hFF /\ pre.cpu.x = \h25 /\ pre.cpu.y = \hFF
    /\ cpu.sp = \hFD /\ cpu.pc = \h00B4 /\ cpu.a = \hFF

----------------------------------------------------------------------------
(* SpecRun: Cpu::load_and_run on small programs.  The state starts where   *)
(* load_and_run calls run: the program is in RAM at 0x0200, the CPU is     *)
(* reset and pc = 0x0200.  The callback of run is the empty closure.       *)

MaxRunSteps == 6

RunPrograms ==
    { <<\hA9, \h05, \h00>>,                              \* LDA #5; BRK
      <<\hA9, \hFF, \hAA, \hE8, \hE8, \h00>>,            \* LDA #FF; TAX; INX; INX; BRK
      <<\h00>>,                                          \* BRK
      <<\hA2, \h02, \hCA, \hD0, \hFD, \h00>>,            \* LDX #2; DEX; BNE -3; BRK
      <<\h4C, \h00, \h02>>,                              \* JMP $0200
      <<\hEA, \h02>>,                                    \* NOP; an opcode not in the table
      <<\hA9, \h00, \h8D, \h00, \h20, \h00>>,            \* LDA #0; STA $2000; BRK
      <<\hE8, \h48, \h68, \h18, \h00>>,                  \* INX; PHA; PLA; CLC; BRK
      <<\hBD, \hFF, \h02, \h00>> }                       \* LDA $02FF,X; BRK

\* The loop is entered: the callback is the first thing it calls.
LoopEntry == [NoRun EXCEPT !.phase = "callback"]

Loaded(pgr) ==
    load_program([cpu |-> Cpu_new, bus |-> Bus_new(test_rom), err |-> "none", ret |-> 0], pgr)

InitRun ==
    \E pgr \in RunPrograms :
        InitAll(Loaded(pgr).cpu, Loaded(pgr).bus, BOOLEAN, LoopEntry)

\* callback(self, bus)
RunCallbackOp ==
    /\ err = "none"
    /\ run.phase = "callback"
    /\ CommitAll(Machine, Machine, "callback", 0, 0,
                 [run EXCEPT !.phase = "fetch", !.callbacks = @ + 1,
                             !.seen = <<cpu, bus>>])

\* The loop after one turn that fetched f and ended in r.  The turn hands
\* nothing to the caller of run_with_callback: the length and the cycles of
\* decode are bound to _ and the function returns (), so run.cycles, the
\* cycle counts the caller has received, stays as it is.
AfterIteration(f, r) ==
    CommitAll(Machine, [r EXCEPT !.ret = 0], "instruction", cpu.pc,
              IF f.err = "none" THEN f.ret ELSE 0,
              [run EXCEPT !.opcodes = IF f.err = "none" THEN Append(@, f.ret) ELSE @,
                          !.phase = IF r.err # "none" THEN "panic"
                                    ELSE IF r.ret.break THEN "done" ELSE "callback"])

\* let opcode = self.fetch(bus) ... self.execute(bus, &instr, &addr_mode)
RunInstructionOp ==
    /\ err = "none"
    /\ run.phase = "fetch"
    /\ Len(run.opcodes) < MaxRunSteps
    /\ AfterIteration(fetch(Machine), run_iteration(Machine))

NextRun == RunCallbackOp \/ RunInstructionOp

SpecRun == InitRun /\ [][NextRun]_vars

\* C12: run_with_callback ordering.  The callback is invoked exactly once
\* before each instruction is fetched, in execution order, and sees the CPU
\* and the bus as the previous instruction left them; the loop ends at the
\* first BRK opcode (0x00) it fetches and never before one is fetched.
C12_RunOrdering ==
    /\ run.phase = "fetch" =>
          /\ run.callbacks = Len(run.opcodes) + 1
          /\ run.seen = <<cpu, bus>>
          /\ last.op = "callback"
          /\ prev.op \in {"none", "instruction"}
    /\ run.phase \in {"callback", "done"} =>
          /\ run.callbacks = Len(run.opcodes)
          /\ last.op \in {"none", "instruction"}
    /\ run.phase = "panic" =>
          run.callbacks \in {Len(run.opcodes), Len(run.opcodes) + 1}
    /\ run.phase = "done" <=>
          (Len(run.opcodes) > 0 /\ run.opcodes[Len(run.opcodes)] = \h00)
    /\ \A k \in 1..(Len(run.opcodes) - 1) : run.opcodes[k] # \h00

\* C12 witness: the loop ran DEX and BNE twice and ended at the BRK, its
\* sixth opcode, after six callbacks.
C12_Witness ==
    /\ run.phase = "done"
    /\ run.opcodes = <<\hA2, \hCA, \hD0, \hCA, \hD0, \h00>>
    /\ run.callbacks = 6

\* C13: cycle accounting.  Executing one instruction returns to the caller
\* a cycle count equal to the base cycles of its opcode in the decode table
\* plus the extra_cycle accumulated while executing it.
C13_CycleAccounting ==
    (last.op = "instruction" /\ run.phase = "callback") =>
        /\ Len(run.cycles) = Len(run.opcodes)
        /\ run.cycles[Len(run.cycles)] = OpcodeTable[last.value][4] + cpu.extra_cycle

\* The cycles of an executed instruction are in the decode table and in
\* extra_cycle, and the loop has handed none of them to its caller.
C13_CyclesKnownButNotReturned ==
    (last.op = "instruction" /\ run.phase = "callback") =>
        /\ last.value \in DOMAIN OpcodeTable
        /\ OpcodeTable[last.value][4] \in 2..8
        /\ cpu.extra_cycle \in 0..2
        /\ run.cycles = <<>>

----------------------------------------------------------------------------
(* SpecBrk: a BRK opcode at the address p, met by the run loop (which      *)
(* breaks) and handed to execute (the arm Instruction::Brk).               *)

BrkAddrs == {\h0200, \h02FE, \h07FD}

BrkStackPointers == {\hFD, \h80, \h02}

InitBrk ==
    \E p \in BrkAddrs, sp \in BrkStackPointers, status \in {\h00, \hC3, \hFF},
       rom \in {test_rom, ines_rom(1, 1, "Horizontal")} :
        InitWith([set_status(Cpu_new, status) EXCEPT !.pc = p, !.sp = sp],
                 Bus_new(rom), BOOLEAN)

\* one turn of run_with_callback at the BRK
RunBrkOp ==
    /\ err = "none"
    /\ steps = 0
    /\ Commit([run_iteration(Machine) EXCEPT !.ret = 0], "run_brk", cpu.pc, 0)

NextBrk == RunBrkOp

SpecBrk == InitBrk /\ [][NextBrk]_vars

\* the byte of the stack page at the stack pointer sp
StackAt(b, sp) == ArrGet(b.cpu_ram, RamIndex(\h0100 + (sp % 256)))

\* C14: BRK.  Executing a BRK whose opcode is at p pushes the high byte and
\* then the low byte of p + 2, then the status byte with B set, sets I and
\* loads pc from the little-endian word at 0xFFFE; sp ends 3 lower.
C14_Brk ==
    last.op = "run_brk" =>
        /\ err = "none"
        /\ StackAt(bus, last.sp) = ((last.adress + 2) \div 256) % 256
        /\ StackAt(bus, last.sp - 1) = (last.adress + 2) % 256
        /\ StackAt(bus, last.sp - 2) = BitOr(get_status(pre.cpu), \h10)
        /\ cpu.i = 1
        /\ cpu.pc = Bus_read(PreMachine, \hFFFE).ret
                    + 256 * Bus_read(PreMachine, \hFFFF).ret
        /\ cpu.sp = (last.sp - 3) % 256

\* What the code does with a BRK: the run loop breaks at it, and only pc
\* has moved, past the opcode.
C14_BrkAsCoded ==
    last.op = "run_brk" =>
        /\ err = "none"
        /\ cpu = [pre.cpu EXCEPT !.pc = last.adress + 1]
        /\ bus = pre.bus

\* the machine apply_brk_op would leave, were it called after the fetch
BrkArm == apply_brk_op([PreMachine EXCEPT !.cpu.pc = last.adress + 1])

\* The arm of execute for BRK, which the run loop never reaches, pushes
\* p + 3 and no status, leaves I alone and loads pc from 0xFFFE; sp ends 2
\* lower.
C14_BrkArmAsCoded ==
    last.op = "run_brk" =>
        /\ BrkArm.err = "none"
        /\ StackAt(BrkArm.bus, last.sp) = ((last.adress + 3) \div 256) % 256
        /\ StackAt(BrkArm.bus, last.sp - 1) = (last.adress + 3) % 256
        /\ StackAt(BrkArm.bus, last.sp - 2) = StackAt(pre.bus, last.sp - 2)
        /\ BrkArm.cpu.i = pre.cpu.i
        /\ BrkArm.cpu.pc = Bus_read(PreMachine, \hFFFE).ret
                           + 256 * Bus_read(PreMachine, \hFFFF).ret
        /\ BrkArm.cpu.sp = last.sp - 2

----------------------------------------------------------------------------
(* SpecDecode: one turn of the run loop on each of the 256 opcode bytes,   *)
(* loaded at 0x0200 by load_and_run and followed by the operand 0x0010.    *)

DecodePrograms == { <<opcode, \h10, \h00>> : opcode \in Byte }

InitDecode ==
    \E pgr \in DecodePrograms :
        InitWith(Loaded(pgr).cpu, Loaded(pgr).bus, BOOLEAN)

\* let opcode = self.fetch(bus) ... self.execute(bus, &instr, &addr_mode)
DecodeTurnOp ==
    /\ err = "none"
    /\ steps = 0
    /\ Commit([run_iteration(Machine) EXCEPT !.ret = 0], "decode_turn", cpu.pc,
              Bus_read(Machine, cpu.pc).ret)

NextDecode == DecodeTurnOp

SpecDecode == InitDecode /\ [][NextDecode]_vars

\* the opcode bytes that have no arm in decode
UnknownOpcodes == Byte \ DOMAIN OpcodeTable

\* C15: unknown opcodes.  Decoding an opcode byte that has no entry in the
\* opcode table fails as an unknown opcode: no instruction is executed for
\* it (only the fetch has moved pc by one, the bus is untouched) and it is
\* not skipped (the loop does not go on); bytes of the table never fail so.
C15_UnknownOpcode ==
    last.op = "decode_turn" =>
        /\ last.value \in UnknownOpcodes =>
              /\ err = "UnknownOpcode"
              /\ cpu = [pre.cpu EXCEPT !.pc = last.adress + 1]
              /\ bus = pre.bus
        /\ last.value \notin UnknownOpcodes => err # "UnknownOpcode"

C15_Witness ==
    /\ last.op = "decode_turn"
    /\ last.value = \h02
    /\ last.value \in UnknownOpcodes
    /\ Cardinality(UnknownOpcodes) = 25
    /\ err = "UnknownOpcode"
    /\ cpu.pc = \h0201

----------------------------------------------------------------------------
(* SpecJmp: one turn of the run loop on JMP (ptr), loaded at 0x0200 by     *)
(* load_and_run, for pointers in RAM, in the PPU registers and in PRG ROM. *)

JmpRamPointers == {\h0010, \h00FF, \h05FF, \h0300, \h03FE, \h04FF, \h0700, \h07FF}

JmpPointers == JmpRamPointers \cup {\h30FF, \h8000, \h80FF, \hFFFE, \hFFFF}

\* the address JMP (ptr) reads the high byte of its target from
JmpHighAddr(ptr) == BitOr(BitAnd(ptr, \hFF00), BitAnd(ptr + 1, \h00FF))

\* load_and_run of JMP (ptr) on a cartridge with marked PRG cells; for a
\* pointer in RAM the program has stored lo at ptr, hi at the start-of-page
\* successor of ptr and the complement of hi at ptr + 1 of the next page
JmpLoaded(ptr, lo, hi) ==
    Then(load_program([cpu |-> Cpu_new, bus |-> Bus_new(ines_rom(1, 1, "Horizontal")),
                       err |-> "none", ret |-> 0],
                      <<\h6C, ptr % 256, ptr \div 256>>), LAMBDA l :
    IF ptr \notin JmpRamPointers THEN l
    ELSE Then(Bus_write(l, (ptr + 1) % \h0800, \hFF - hi), LAMBDA n :
         Then(Bus_write(n, JmpHighAddr(ptr), hi), LAMBDA h :
         Return(Bus_write(h, ptr, lo), 0))))

InitJmp ==
    \E ptr \in JmpPointers, lo \in {\h34, \hFF}, hi \in {\h12, \h80} :
        InitWith(JmpLoaded(ptr, lo, hi).cpu, JmpLoaded(ptr, lo, hi).bus, BOOLEAN)

\* the pointer of the JMP (ptr) at pc
JmpPointerAt(s) ==
    Bus_read(s, s.cpu.pc + 1).ret + 256 * Bus_read(s, s.cpu.pc + 2).ret

\* let opcode = self.fetch(bus) ... self.execute(bus, &instr, &addr_mode)
JmpOp ==
    /\ err = "none"
    /\ steps = 0
    /\ Commit([run_iteration(Machine) EXCEPT !.ret = 0], "jmp", JmpPointerAt(Machine), \h6C)

NextJmp == JmpOp

SpecJmp == InitJmp /\ [][NextJmp]_vars

\* read(ptr) and then read(JmpHighAddr(ptr)) on the bus as the JMP found it:
\* the machine after both reads, returning read(ptr) | (read(..) << 8)
JmpTarget ==
    Then(Bus_read(PreMachine, last.adress), LAMBDA lo :
    Then(Bus_read(lo, JmpHighAddr(last.adress)), LAMBDA hi :
    Return(hi, BitOr(lo.ret, Shl(hi.ret, 8, 16)))))

\* C16: JMP indirect page wrap.  For every pointer ptr whose two bytes can
\* be read, JMP (ptr) sets pc to
\* read(ptr) | (read((ptr & 0xFF00) | ((ptr + 1) & 0x00FF)) << 8).
C16_JmpIndirect ==
    (last.op = "jmp" /\ JmpTarget.err = "none") =>
        /\ err = "none"
        /\ cpu.pc = JmpTarget.ret

\* The same for every pointer but 0xFFFF in a build with overflow checks,
\* where low_indirect + 1 panics.
C16_JmpIndirectBelowTop ==
    (last.op = "jmp" /\ JmpTarget.err = "none") =>
        IF overflow_checks /\ last.adress = \hFFFF
        THEN err = "ArithmeticOverflow" /\ cpu.pc = \h0203
        ELSE /\ err = "none"
             /\ cpu.pc = JmpTarget.ret
             /\ bus = JmpTarget.bus

----------------------------------------------------------------------------
(* SpecIndirect: one turn of the run loop on STA (zp,X) and STA (zp),Y,    *)
(* loaded at 0x0200 by load_and_run.  Page zero and the first bytes of     *)
(* page one hold pointer bytes; the store of A = 0xEE shows the address    *)
(* the addressing mode produced.                                           *)

IndirectOpcodes == {\h81, \h91}

IndirectOperands == {\h00, \h10, \h7F, \hFE, \hFF}

\* the pointer bytes the program has stored: <<address, byte>>
PointerBytes ==
    << <<\h0000, \h03>>, <<\h0001, \h04>>, <<\h0010, \h06>>, <<\h0011, \h05>>,
       <<\h007F, \h07>>, <<\h0080, \h06>>, <<\h00FE, \h05>>, <<\h00FF, \h04>>,
       <<\h0100, \h07>>, <<\h0101, \h02>> >>

RECURSIVE write_bytes(_, _, _)
write_bytes(s, cells, i) ==
    IF i > Len(cells) THEN s
    ELSE write_bytes(Bus_write(s, cells[i][1], cells[i][2]), cells, i + 1)

IndirectLoaded(opcode, operand) ==
    write_bytes(load_program([cpu |-> Cpu_new, bus |-> Bus_new(test_rom),
                              err |-> "none", ret |-> 0], <<opcode, operand, \h00>>),
                PointerBytes, 1)

InitIndirect ==
    \E opcode \in IndirectOpcodes, operand \in IndirectOperands,
       x \in {\h00, \h01, \h80, \hFF}, y \in {\h00, \h01, \hFF} :
        InitWith([IndirectLoaded(opcode, operand).cpu EXCEPT !.a = \hEE, !.x = x, !.y = y],
                 IndirectLoaded(opcode, operand).bus, BOOLEAN)

\* let opcode = self.fetch(bus) ... self.execute(bus, &instr, &addr_mode)
IndirectOp ==
    /\ err = "none"
    /\ steps = 0
    /\ Commit([run_iteration(Machine) EXCEPT !.ret = 0], "sta_indirect",
              Bus_read(Machine, cpu.pc + 1).ret, Bus_read(Machine, cpu.pc).ret)

NextIndirect == IndirectOp

SpecIndirect == InitIndirect /\ [][NextIndirect]_vars

\* the byte of page zero at ptr mod 256, as the instruction found it
ZeroPageAt(ptr) == ArrGet(pre.bus.cpu_ram, ptr % 256)

\* the 16-bit pointer whose two bytes are in page zero at ptr and (ptr + 1) mod 256
ZeroPagePointer(ptr) == BitOr(ZeroPageAt(ptr), Shl(ZeroPageAt(ptr + 1), 8, 16))

\* C17: zero-page indirect pointer wrap.  In (zp,X) and in (zp),Y addressing
\* both pointer bytes are read from page zero, the high byte at
\* (ptr + 1) mod 256: the store goes to the address so formed (plus Y for
\* (zp),Y), and with operand 0xFF in (zp),Y the high byte is the one at
\* 0x0000.
C17_ZeroPageIndirect ==
    last.op = "sta_indirect" =>
        /\ err = "none"
        /\ last.value = \h81 =>
              bus = Bus_write(PreMachine,
                              ZeroPagePointer((last.adress + pre.cpu.x) % 256),
                              pre.cpu.a).bus
        /\ last.value = \h91 =>
              bus = Bus_write(PreMachine,
                              (ZeroPagePointer(last.adress) + pre.cpu.y) % 65536,
                              pre.cpu.a).bus

C17_Witness ==
    /\ last.op = "sta_indirect"
    /\ last.value = \h91
    /\ last.adress = \hFF
    /\ pre.cpu.y = \h01
    /\ ZeroPageAt(\h00) = \h03 /\ ArrGet(pre.bus.cpu_ram, \h0100) = \h07
    /\ ArrGet(bus.cpu_ram, \h0305) = \hEE
    /\ ArrGet(bus.cpu_ram, \h0705) = \h00

----------------------------------------------------------------------------
(* SpecBranch: one turn of the run loop on each branch instruction with    *)
(* each offset byte, placed at the pc of the turn.  The flags are all      *)
(* clear or all set, and extra_cycle holds what an earlier instruction     *)
(* left.                                                                   *)

BranchOpcodes == {\h90, \hB0, \hF0, \h30, \hD0, \h10, \h50, \h70}

BranchAddrs == {\h0000, \h0200, \h02F0, \h02FE}

InitBranch ==
    \E p \in BranchAddrs, f \in Bit :
        InitWith([Cpu_new EXCEPT !.pc = p, !.c = f, !.z = f, !.n = f, !.v = f,
                                 !.extra_cycle = 2],
                 Bus_new(test_rom), BOOLEAN)

\* The machine with the branch and its offset byte in place
WithBranch(opcode, offset) ==
    Bus_write(Bus_write(Machine, cpu.pc, opcode), cpu.pc + 1, offset)

\* One turn on the machine s0, which has the branch at pc
BranchTurn(s0, opcode, offset) ==
    CommitFrom(s0, [run_iteration(s0) EXCEPT !.ret = opcode], "branch", cpu.pc, offset)

\* let opcode = self.fetch(bus) ... self.execute(bus, &instr, &addr_mode)
BranchOp ==
    /\ err = "none"
    /\ steps = 0
    /\ \E opcode \in BranchOpcodes, offset \in Byte :
          BranchTurn(WithBranch(opcode, offset), opcode, offset)

NextBranch == BranchOp

SpecBranch == InitBranch /\ [][NextBranch]_vars

\* whether the branch of this opcode is taken with the flags of c
BranchTaken(opcode, c) ==
    CASE opcode = \h90 -> c.c = 0
      [] opcode = \hB0 -> c.c # 0
      [] opcode = \hF0 -> c.z # 0
      [] opcode = \h30 -> c.n # 0
      [] opcode = \hD0 -> c.z = 0
      [] opcode = \h10 -> c.n = 0
      [] opcode = \h50 -> c.v = 0
      [] opcode = \h70 -> c.v # 0

\* C18: branch cycles.  After a branch instruction that completes, with any
\* offset byte (-128..+127), extra_cycle is 0 when the branch is not taken,
\* 1 when it is taken and the target is in the page of the address that
\* follows the offset byte, and 2 when it is taken and the target is in
\* another page.
C18_BranchCycles ==
    (last.op = "branch" /\ err = "none") =>
        cpu.extra_cycle =
            IF ~BranchTaken(last.ret, pre.cpu) THEN 0
            ELSE IF (last.adress + 2 + FromI8(last.value)) \div 256
                    = (last.adress + 2) \div 256
                 THEN 1 ELSE 2

C18_Witness ==
    /\ last.op = "branch" /\ err = "none"
    /\ last.ret = \hD0 /\ pre.cpu.z = 0
    /\ last.adress = \h02FE /\ last.value = \hFF
    /\ cpu.pc = \h02FF
    /\ cpu.extra_cycle = 2

----------------------------------------------------------------------------
(* SpecNrom: a driver reading and writing the cartridge range of the bus   *)
(* of NROM cartridges with 16 or 32 KiB of PRG ROM and 8 or 16 KiB of CHR  *)
(* ROM, as Rom::from_ines builds them.                                     *)

MaxNromOps == 2

NromAddrs == {\h8000, \h8001, \hBFFC, \hBFFF, \hC000, \hC001, \hFFFC, \hFFFF}

NromValues == {\h00, \h55}

\* the PRG ROM of len bytes: 0 but for marked cells, each with its own byte
NromPrg(len) ==
    [NewArray(len, 0) EXCEPT !.cells =
        [j \in {k \in {\h0000, \h0001, \h3FFC, \h3FFF, \h4000, \h4001, \h7FFC, \h7FFF} : k < len}
            |-> (IF j < \h4000 THEN \h10 ELSE \h20) + (j % 16)]]

\* Rom::from_ines for a file of prg 16 KiB banks and chr 8 KiB banks
nrom_rom(prg, chr) ==
    [mapper    |-> Nrom_new(NromPrg(16384 * prg), NewArray(8192 * chr, 0)),
     mirroring |-> "Horizontal"]

InitNrom ==
    \E prg \in {1, 2}, chr \in {1, 2} :
        InitWith(Cpu_new, Bus_new(nrom_rom(prg, chr)), {TRUE})

NromReadOp ==
    /\ err = "none"
    /\ steps < MaxNromOps
    /\ \E adress \in NromAddrs :
          Commit(Bus_read(Machine, adress), "nrom_read", adress, 0)

NromWriteOp ==
    /\ err = "none"
    /\ steps < MaxNromOps
    /\ \E adress \in NromAddrs, value \in NromValues :
          Commit([Bus_write(Machine, adress, value) EXCEPT !.ret = 0],
                 "nrom_write", adress, value)

NextNrom == NromReadOp \/ NromWriteOp

SpecNrom == InitNrom /\ [][NextNrom]_vars

\* the PRG ROM as the last operation found it
PrePrg == pre.bus.rom.mapper.pgr_rom

\* C19: NROM read mapping.  A read of a CPU address a in 0x8000..=0xFFFF
\* returns prg[a & 0x3FFF] on a cartridge with 16 KiB of PRG ROM (NROM-128)
\* and prg[a & 0x7FFF] on one with 32 KiB (NROM-256).
C19_NromReadMapping ==
    last.op = "nrom_read" =>
        /\ err = "none"
        /\ last.ret = ArrGet(PrePrg, BitAnd(last.adress,
                                 IF PrePrg.len = 16384 THEN \h3FFF ELSE \h7FFF))

\* What the code does: the mask follows the length of the CHR ROM, 0x7FFF
\* above 8196 bytes and 0x3FFF otherwise, and a masked address beyond the
\* PRG ROM fails as an index out of bounds.
C19_MaskFollowsChrLength ==
    last.op = "nrom_read" =>
        IF BitAnd(last.adress,
                  IF pre.bus.rom.mapper.chr_rom.len > 8196 THEN \h7FFF ELSE \h3FFF)
           < PrePrg.len
        THEN /\ err = "none"
             /\ last.ret = ArrGet(PrePrg, BitAnd(last.adress,
                    IF pre.bus.rom.mapper.chr_rom.len > 8196 THEN \h7FFF ELSE \h3FFF))
        ELSE err = "IndexOutOfBounds"

\* the machine with the PRG ROM the cartridge was created with
OriginalMachine ==
    [Machine EXCEPT !.bus.rom.mapper.pgr_rom = NromPrg(bus.rom.mapper.pgr_rom.len)]

\* C20: PRG ROM is read-only from the CPU side.  After any sequence of bus
\* writes, each of them ignored or failing, every read of an address in
\* 0x8000..=0xFFFF returns the byte the PRG ROM held when the cartridge was
\* created.
C20_PrgReadOnly ==
    /\ last.op = "nrom_write" =>
          \/ err # "none"
          \/ bus = pre.bus
    /\ err = "none" =>
          \A adress \in NromAddrs :
              Bus_read(Machine, adress).err = "none" =>
                  Bus_read(Machine, adress).ret = Bus_read(OriginalMachine, adress).ret

\* What the code does: a write in 0x8000..=0xFFFF that does not fail stores
\* the value in the PRG ROM, and a read of the same address returns it.
C20_WriteReachesPrg ==
    (last.op = "nrom_write" /\ err = "none") =>
        /\ bus.rom.mapper.pgr_rom
              = ArrPut(PrePrg, NromEffective(pre.bus.rom.mapper, last.adress), last.value)
        /\ Bus_read(Machine, last.adress).ret = last.value

----------------------------------------------------------------------------
(* SpecTrace: trace called, as the callback of the run loop calls it, on   *)
(* instructions of every size and addressing mode loaded at 0x0200 by      *)
(* load_and_run.                                                           *)

TracePrograms ==
    { <<\hA9, \h05>>,             \* LDA #$05
      <<\hA5, \h10>>,             \* LDA $10
      <<\hB5, \h10>>,             \* LDA $10,X
      <<\hB6, \h10>>,             \* LDX $10,Y
      <<\hA1, \h10>>,             \* LDA ($10,X)
      <<\hB1, \h10>>,             \* LDA ($10),Y
      <<\hD0, \h02>>,             \* BNE +2
      <<\hAD, \h00, \h03>>,       \* LDA $0300
      <<\hBD, \hF0, \h02>>,       \* LDA $02F0,X
      <<\hB9, \hF0, \h02>>,       \* LDA $02F0,Y
      <<\h4C, \h00, \h03>>,       \* JMP $0300
      <<\h6C, \h00, \h03>>,       \* JMP ($0300)
      <<\h20, \h00, \h03>>,       \* JSR $0300
      <<\hE8>>,                   \* INX
      <<\h0A>>,                   \* ASL A
      <<\h00>>,                   \* BRK
      <<\h8D, \h00, \h03>>,       \* STA $0300
      <<\hAD, \h07, \h20>>,       \* LDA $2007
      <<\h8D, \h00, \h20>>,       \* STA $2000
      <<\h02>> }                  \* an opcode not in the table

InitTrace ==
    \E pgr \in TracePrograms, i \in {\h00, \h20} :
        InitWith([Loaded(pgr).cpu EXCEPT !.x = i, !.y = i, !.a = \h7E], Loaded(pgr).bus,
                 BOOLEAN)

\* callback(self, bus) with the callback of main: println!("{}", trace(cpu, memory))
TraceOp ==
    /\ err = "none"
    /\ steps = 0
    /\ Commit([trace(Machine) EXCEPT !.ret = 0], "trace", cpu.pc,
              Bus_read(Machine, cpu.pc).ret)

NextTrace == TraceOp

SpecTrace == InitTrace /\ [][NextTrace]_vars

\* the registers and flags of the CPU c, without the cycle bookkeeping
Registers(c) == [c EXCEPT !.extra_cycle = 0]

\* C21: the trace formatter is non-destructive.  For every instruction,
\* trace completes and leaves pc, A, X, Y, sp, the flags, the RAM and the
\* PPU state as they were.
C21_TraceNonDestructive ==
    (last.op = "trace" /\ last.value \in DOMAIN OpcodeTable) =>
        /\ err = "none"
        /\ Registers(cpu) = Registers(pre.cpu)
        /\ bus = pre.bus

\* the address the instruction at pc works on, when it is an absolute one
TraceAbsolute ==
    Bus_read(PreMachine, last.adress + 1).ret
    + 256 * Bus_read(PreMachine, last.adress + 2).ret

\* What the code does: a trace that completes leaves the registers, the
\* flags and the RAM as they were, but it reads the byte at the effective
\* address; on 0x2007 that read moves the VRAM address and the read buffer
\* of the PPU, and on a write-only register it fails.
C21_TraceReadsOperand ==
    last.op = "trace" =>
        /\ err = "none" =>
              /\ Registers(cpu) = Registers(pre.cpu)
              /\ bus.cpu_ram = pre.bus.cpu_ram
              /\ bus.rom = pre.bus.rom
              /\ bus.ppu # pre.bus.ppu <=> (last.value = \hAD /\ TraceAbsolute = \h2007)
        /\ (last.value = \h8D /\ TraceAbsolute = \h2000) => err = "WriteOnlyRead"

----------------------------------------------------------------------------
(* One turn of the run loop on an instruction the driver has placed at pc, *)
(* as load_and_run places a program.                                       *)

\* The machine with the bytes of pgr at 0x0200, where pc is
WithProgram(pgr) == write_program(Machine, pgr, 1)

\* One turn on the machine s0, which has the instruction at pc; the
\* operation records the opcode and the value the driver chose
Turn(s0, name, opcode, value) ==
    CommitFrom(s0, [run_iteration(s0) EXCEPT !.ret = opcode], name, cpu.pc, value)

----------------------------------------------------------------------------
(* SpecIncDec: INX, INY, DEX, DEY, INC $10 and DEC $10 on every byte.      *)

IncDecOpcodes == {\hE8, \hC8, \hCA, \h88, \hE6, \hC6}

IncDecLoaded(v) == Bus_write(Loaded(<<>>), \h0010, v)

InitIncDec ==
    \E v \in Byte, f \in Bit :
        InitWith([IncDecLoaded(v).cpu EXCEPT !.x = v, !.y = v, !.z = f, !.n = 1 - f],
                 IncDecLoaded(v).bus, BOOLEAN)

\* let opcode = self.fetch(bus) ... self.execute(bus, &instr, &addr_mode)
IncDecOp ==
    /\ err = "none"
    /\ steps = 0
    /\ \E opcode \in IncDecOpcodes :
          Turn(WithProgram(<<opcode, \h10>>), "incdec", opcode, \h10)

NextIncDec == IncDecOp

SpecIncDec == InitIncDec /\ [][NextIncDec]_vars

\* the byte the instruction of this opcode increments or decrements, in the
\* machine with CPU c and bus b
IncDecOperand(opcode, c, b) ==
    IF opcode \in {\hE8, \hCA} THEN c.x
    ELSE IF opcode \in {\hC8, \h88} THEN c.y
    ELSE ArrGet(b.cpu_ram, \h0010)

\* C22: 8-bit increment/decrement wrap.  INX, INY, DEX, DEY, INC and DEC
\* complete and leave (value + 1) mod 256 or (value - 1) mod 256 in their
\* operand, Z set exactly when that result is 0 and N its bit 7.
C22_IncDecWrap ==
    last.op = "incdec" =>
        /\ err = "none"
        /\ IncDecOperand(last.ret, cpu, bus)
              = (IncDecOperand(last.ret, pre.cpu, pre.bus)
                 + (IF last.ret \in {\hE8, \hC8, \hE6} THEN 1 ELSE 255)) % 256
        /\ cpu.z = 1 <=> IncDecOperand(last.ret, cpu, bus) = 0
        /\ cpu.z \in Bit
        /\ cpu.n = IncDecOperand(last.ret, cpu, bus) \div 128

C22_Witness ==
    /\ last.op = "incdec" /\ last.ret = \hE8
    /\ pre.cpu.x = \hFF /\ pre.cpu.z = 0 /\ pre.cpu.n = 1
    /\ cpu.x = \h00 /\ cpu.z = 1 /\ cpu.n = 0
    /\ err = "none"

----------------------------------------------------------------------------
(* SpecRotate: ROL A, ROL $0300, ROR A and ROR $0300 on every byte with    *)
(* either carry.                                                           *)

RotateOpcodes == {\h2A, \h2E, \h6A, \h6E}

RotateLoaded(v) == Bus_write(Loaded(<<>>), \h0300, v)

InitRotate ==
    \E v \in Byte, c \in Bit :
        InitWith([RotateLoaded(v).cpu EXCEPT !.a = v, !.c = c, !.z = 1, !.n = 1 - c],
                 RotateLoaded(v).bus, BOOLEAN)

\* let opcode = self.fetch(bus) ... self.execute(bus, &instr, &addr_mode)
RotateOp ==
    /\ err = "none"
    /\ steps = 0
    /\ \E opcode \in RotateOpcodes :
          Turn(WithProgram(<<opcode, \h00, \h03>>), "rotate", opcode, \h0300)

NextRotate == RotateOp

SpecRotate == InitRotate /\ [][NextRotate]_vars

\* the operand of the rotate of this opcode in the machine with CPU c and bus b
RotateOperand(opcode, c, b) ==
    IF opcode \in {\h2A, \h6A} THEN c.a ELSE ArrGet(b.cpu_ram, \h0300)

\* ((M << 1) | C_in) mod 256 for ROL, (C_in << 7) | (M >> 1) for ROR
Rotated(opcode, m, c_in) ==
    IF opcode \in {\h2A, \h2E} THEN (2 * m + c_in) % 256 ELSE 128 * c_in + (m \div 2)

\* C23: ROL/ROR rotate through carry.  ROL leaves ((M << 1) | C_in) mod 256
\* in its operand with C = bit 7 of M, ROR leaves (C_in << 7) | (M >> 1)
\* with C = bit 0 of M; N is bit 7 of the result and Z is set exactly when
\* the result is 0; the result is in the operand, memory or A.
C23_Rotate ==
    last.op = "rotate" =>
        /\ err = "none"
        /\ RotateOperand(last.ret, cpu, bus)
              = Rotated(last.ret, RotateOperand(last.ret, pre.cpu, pre.bus), pre.cpu.c)
        /\ cpu.c = IF last.ret \in {\h2A, \h2E}
                   THEN RotateOperand(last.ret, pre.cpu, pre.bus) \div 128
                   ELSE RotateOperand(last.ret, pre.cpu, pre.bus) % 2
        /\ cpu.n = RotateOperand(last.ret, cpu, bus) \div 128
        /\ cpu.z = IF RotateOperand(last.ret, cpu, bus) = 0 THEN 1 ELSE 0

C23_Witness ==
    /\ last.op = "rotate" /\ last.ret = \h2E /\ err = "none"
    /\ ArrGet(pre.bus.cpu_ram, \h0300) = \hA2 /\ pre.cpu.c = 0
    /\ ArrGet(bus.cpu_ram, \h0300) = \h44
    /\ cpu.c = 1 /\ cpu.n = 0 /\ cpu.z = 0

----------------------------------------------------------------------------
(* SpecLoad: every opcode of LDA, LDX, LDY and LAX, with operand bytes     *)
(* 0x00, 0x10 and 0x80 (and 0x03 as the high byte of an absolute operand), *)
(* on a RAM whose cells hold bytes of their own.                           *)

LoadOpcodes == {op \in DOMAIN OpcodeTable : OpcodeTable[op][1] \in {"Lda", "Ldx", "Ldy", "Lax"}}

LoadOperands == {\h00, \h10, \h80}

\* The RAM the program has filled, for the kind k of run.  The odd cells
\* of page zero hold 4 or 6, so that every pointer in page zero leads to
\* the RAM; the other cells hold bytes that differ from cell to cell:
\* negative ones for k = 0, positive ones for k = 1, and 0 for k = 2.
LoadByteAt(k, j) ==
    IF j < 256 /\ j % 2 = 1 THEN 3 + (j % 4)
    ELSE IF k = 0 THEN \h80 + ((5 * j + (j \div 256)) % 128)
    ELSE IF k = 1 THEN 1 + ((5 * j + (j \div 256)) % 127)
    ELSE 0

LoadRam(k) ==
    [j \in {i \in 0..2047 : LoadByteAt(k, i) # 0} |-> LoadByteAt(k, j)]

LoadLoaded(k) == [Loaded(<<>>) EXCEPT !.bus.cpu_ram.cells = LoadRam(k)]

InitLoad ==
    \E k \in {0, 1, 2}, i \in {\h04, \hF0} :
        InitWith([LoadLoaded(k).cpu EXCEPT !.x = i, !.y = (2 * i) % 256, !.a = \h5A,
                                           !.z = k % 2, !.n = k \div 2, !.c = 1, !.v = 1],
                 LoadLoaded(k).bus, BOOLEAN)

\* let opcode = self.fetch(bus) ... self.execute(bus, &instr, &addr_mode)
LoadOp ==
    /\ err = "none"
    /\ steps = 0
    /\ \E opcode \in LoadOpcodes, operand \in LoadOperands :
          Turn(WithProgram(<<opcode, operand, \h03>>), "load", opcode, operand)

NextLoad == LoadOp

SpecLoad == InitLoad /\ [][NextLoad]_vars

\* the effective address of the instruction the last turn ran, whose first
\* operand byte is last.value, in the addressing mode given
EffectiveAddress(addr_mode) ==
    CASE addr_mode = "Immediate" -> last.adress + 1
      [] addr_mode = "ZeroPage" -> last.value
      [] addr_mode = "XIndexedZeroPage" -> (last.value + pre.cpu.x) % 256
      [] addr_mode = "YIndexedZeroPage" -> (last.value + pre.cpu.y) % 256
      [] addr_mode = "Absolute" -> \h0300 + last.value
      [] addr_mode = "XIndexedAbsolute" -> (\h0300 + last.value + pre.cpu.x) % 65536
      [] addr_mode = "YIndexedAbsolute" -> (\h0300 + last.value + pre.cpu.y) % 65536
      [] addr_mode = "XIndexedZeroPageIndirect" ->
            ZeroPagePointer((last.value + pre.cpu.x) % 256)
      [] addr_mode = "ZeroPageIndirectYIndexed" ->
            (ZeroPagePointer(last.value) + pre.cpu.y) % 65536

\* the byte at the effective address, as the instruction found it
LoadedByte == Bus_read(PreMachine, EffectiveAddress(OpcodeTable[last.ret][2])).ret

\* C24: loads.  Every opcode of LDA, LDX, LDY and LAX sets its destination
\* register(s) to the byte at the effective address, Z exactly when that
\* byte is 0 and N to its bit 7, and changes no other register or flag (pc
\* moves past the instruction).
C24_Loads ==
    last.op = "load" =>
        /\ err = "none"
        /\ bus = pre.bus
        /\ Registers(cpu) =
             [Registers(pre.cpu) EXCEPT
                !.a = IF OpcodeTable[last.ret][1] \in {"Lda", "Lax"} THEN LoadedByte ELSE @,
                !.x = IF OpcodeTable[last.ret][1] \in {"Ldx", "Lax"} THEN LoadedByte ELSE @,
                !.y = IF OpcodeTable[last.ret][1] = "Ldy" THEN LoadedByte ELSE @,
                !.z = IF LoadedByte = 0 THEN 1 ELSE 0,
                !.n = LoadedByte \div 128,
                !.pc = @ + OpcodeTable[last.ret][3]]

C24_Witness ==
    /\ last.op = "load" /\ err = "none"
    /\ last.ret = \hB1 /\ last.value = \h10
    /\ pre.cpu.y = \h08 /\ pre.cpu.z = 1 /\ pre.cpu.n = 0
    /\ EffectiveAddress("ZeroPageIndirectYIndexed") = \h0459
    /\ LoadedByte = \h6D
    /\ Cardinality(LoadOpcodes) = 24
    /\ cpu.a = LoadedByte /\ cpu.z = 0 /\ cpu.n = 0

----------------------------------------------------------------------------
(* SpecTransfer: TAX, TAY, TSX, TXA, TXS and TYA on registers that all     *)
(* differ, for every byte in the source register.                          *)

TransferOpcodes == {\hAA, \hA8, \hBA, \h8A, \h9A, \h98}

InitTransfer ==
    \E v \in Byte, f \in Bit :
        InitWith([set_status(Loaded(<<>>).cpu, \hFF * f)
                    EXCEPT !.a = v, !.x = (v + \h55) % 256, !.y = (v + \hAA) % 256,
                           !.sp = (v + \h33) % 256],
                 Loaded(<<>>).bus, BOOLEAN)

\* let opcode = self.fetch(bus) ... self.execute(bus, &instr, &addr_mode)
TransferOp ==
    /\ err = "none"
    /\ steps = 0
    /\ \E opcode \in TransferOpcodes :
          Turn(WithProgram(<<opcode>>), "transfer", opcode, 0)

NextTransfer == TransferOp

SpecTransfer == InitTransfer /\ [][NextTransfer]_vars

\* source and destination register of the transfer of this opcode
TransferSource(opcode) ==
    CASE opcode \in {\hAA, \hA8} -> "a"
      [] opcode = \hBA -> "sp"
      [] opcode \in {\h8A, \h9A} -> "x"
      [] opcode = \h98 -> "y"

TransferDestination(opcode) ==
    CASE opcode \in {\hAA, \hBA} -> "x"
      [] opcode = \hA8 -> "y"
      [] opcode \in {\h8A, \h98} -> "a"
      [] opcode = \h9A -> "sp"

\* C25: transfers.  TAX, TAY, TSX, TXA and TYA copy the source register to
\* the destination and set Z and N from the value copied; TXS copies X to sp
\* and leaves every flag as it was.
C25_Transfers ==
    last.op = "transfer" =>
        /\ err = "none"
        /\ cpu[TransferDestination(last.ret)] = pre.cpu[TransferSource(last.ret)]
        /\ cpu[TransferSource(last.ret)] = pre.cpu[TransferSource(last.ret)]
        /\ IF last.ret = \h9A
           THEN get_status(cpu) = get_status(pre.cpu)
           ELSE /\ cpu.z = IF cpu[TransferDestination(last.ret)] = 0 THEN 1 ELSE 0
                /\ cpu.n = cpu[TransferDestination(last.ret)] \div 128
                /\ [Registers(cpu) EXCEPT !.z = 0, !.n = 0]
                      = [Registers(pre.cpu) EXCEPT
                           ![TransferDestination(last.ret)] = pre.cpu[TransferSource(last.ret)],
                           !.pc = @ + 1, !.z = 0, !.n = 0]

C25_Witness ==
    /\ last.op = "transfer" /\ err = "none"
    /\ last.ret = \h9A
    /\ pre.cpu.x = \h00 /\ pre.cpu.z = 0 /\ pre.cpu.sp # \h00
    /\ cpu.sp = \h00 /\ cpu.z = 0

----------------------------------------------------------------------------
(* SpecWord: a driver calling Bus::read_u16 and Bus::write_u16 on the bus  *)
(* of a 32 KiB cartridge, in both builds.                                  *)

MaxWordOps == 2

WordAddrs ==
    {\h0000, \h07FF, \h17FF, \h1FFE, \h1FFF, \h2006, \h2007, \h3FFF,
     \h8000, \hFFFE, \hFFFF}

WordValues == {\h0000, \h1234, \hFF00}

InitWord == InitWith(Cpu_new, Bus_new(ines_rom(2, 1, "Horizontal")), BOOLEAN)

ReadWordOp ==
    /\ err = "none"
    /\ steps < MaxWordOps
    /\ \E adress \in WordAddrs :
          Commit(Bus_read_u16(Machine, adress), "read_u16", adress, 0)

WriteWordOp ==
    /\ err = "none"
    /\ steps < MaxWordOps
    /\ \E adress \in WordAddrs, value \in WordValues :
          Commit([Bus_write_u16(Machine, adress, value) EXCEPT !.ret = 0],
                 "write_u16", adress, value)

NextWord == ReadWordOp \/ WriteWordOp

SpecWord == InitWord /\ [][NextWord]_vars

\* both bytes of the word at adress are RAM bytes
WordInRam(adress) == adress >= RAM /\ adress + 1 <= RAM_MIRROR_END

\* C26: the 16-bit bus helpers are little-endian.  Where read(a) and
\* read(a + 1) both succeed, read_u16(a) succeeds and is
\* read(a) | (read(a + 1) << 8); write_u16(a, v) stores the low byte of v at
\* a and the high byte at a + 1, and when both are RAM addresses read_u16(a)
\* then returns v.
C26_WordLittleEndian ==
    /\ (/\ last.op = "read_u16"
        /\ Bus_read(PreMachine, last.adress).err = "none"
        /\ Bus_read(PreMachine, last.adress + 1).err = "none")
       => /\ err = "none"
          /\ last.ret = BitOr(Bus_read(PreMachine, last.adress).ret,
                              Shl(Bus_read(PreMachine, last.adress + 1).ret, 8, 16))
    /\ (last.op = "write_u16" /\ WordInRam(last.adress))
       => /\ err = "none"
          /\ Bus_read(Machine, last.adress).ret = last.value % 256
          /\ Bus_read(Machine, last.adress + 1).ret = last.value \div 256
          /\ Bus_read_u16(Machine, last.adress).err = "none"
          /\ Bus_read_u16(Machine, last.adress).ret = last.value

C26_Witness ==
    /\ prev.op = "write_u16" /\ prev.adress = \h07FF /\ prev.value = \h1234
    /\ last.op = "read_u16" /\ last.adress = \h17FF /\ last.ret = \h1234
    /\ ArrGet(bus.cpu_ram, \h07FF) = \h34 /\ ArrGet(bus.cpu_ram, \h0000) = \h12
    /\ err = "none"

----------------------------------------------------------------------------
(* SpecFlags: RTI at 0x0200 returning to a PLP or a PHP at 0x0300, or the  *)
(* PLP or PHP alone, with the stack anywhere in its page, in both builds.  *)
(* The RTI is what leaves B set in the CPU: set_status takes bit 4 of the  *)
(* byte it pops.                                                           *)

MaxFlagOps == 2

FlagOpcodes == {\h28, \h08}

FlagStackPointers == {\h00, \h10, \hFB, \hFC, \hFF}

FlagBytes == {\h00, \h10, \h3C, \hEF, \hFF}

\* the stack address k pops above the stack pointer sp
StackAbove(sp, k) == \h0100 + ((sp + k) % 256)

\* the program, and the four bytes pushed before it runs: the byte PLP is
\* to pop, the return address 0x0300 and the status byte RTI is to pop
FlagLoaded(opcode, sp, p, q) ==
    write_bytes(Loaded(<<\h40>>),
                << <<\h0300, opcode>>, <<StackAbove(sp, 1), p>>,
                   <<StackAbove(sp, 2), \h00>>, <<StackAbove(sp, 3), \h03>>,
                   <<StackAbove(sp, 4), q>> >>, 1)

InitFlags ==
    \E opcode \in FlagOpcodes, sp \in FlagStackPointers, p \in FlagBytes,
       q \in FlagBytes, pc \in {\h0200, \h0300} :
        InitWith([FlagLoaded(opcode, sp, p, q).cpu
                    EXCEPT !.sp = sp, !.pc = pc, !.a = \h11, !.x = \h22, !.y = \h33],
                 FlagLoaded(opcode, sp, p, q).bus, BOOLEAN)

\* the instruction at pc, by name
FlagOpName(opcode) ==
    CASE opcode = \h40 -> "rti"
      [] opcode = \h28 -> "plp"
      [] opcode = \h08 -> "php"
      [] OTHER -> "turn"

\* let opcode = self.fetch(bus) ... self.execute(bus, &instr, &addr_mode)
FlagTurnOp ==
    /\ err = "none"
    /\ steps < MaxFlagOps
    /\ cpu.pc \in {\h0200, \h0300}
    /\ Turn(Machine, FlagOpName(Bus_read(Machine, cpu.pc).ret),
            Bus_read(Machine, cpu.pc).ret, 0)

NextFlags == FlagTurnOp

SpecFlags == InitFlags /\ [][NextFlags]_vars

\* the byte the stack_pop of the last instruction read
PoppedByte == Bus_read(PreMachine, StackAbove(pre.cpu.sp, 1)).ret

\* C27: PLP preserves B.  After a PLP that completes the B flag of the CPU is
\* what it was before it, whatever bit 4 of the popped byte; N, V, D, I, Z
\* and C are those of the popped byte and sp is one higher.
C27_PlpPreservesB ==
    (last.op = "plp" /\ err = "none") =>
        /\ cpu.b = pre.cpu.b
        /\ set_status(cpu, 0) =
              [set_status(pre.cpu, 0) EXCEPT !.pc = @ + 1, !.sp = (@ + 1) % 256]
        /\ BitAnd(get_status(cpu), \hCF) = BitAnd(PoppedByte, \hCF)

\* What the code does: PLP clears B, the other flags and sp as claimed.
C27_PlpClearsB ==
    (last.op = "plp" /\ err = "none") =>
        /\ cpu.b = 0
        /\ cpu.sp = (pre.cpu.sp + 1) % 256
        /\ BitAnd(get_status(cpu), \hCF) = BitAnd(PoppedByte, \hCF)


\* PHP as described: the status byte with bits 4 and 5 set is at the old
\* top of the stack, sp is one lower, and the CPU is otherwise as it was
PhpPushesStatus ==
    /\ err = "none"
    /\ ArrGet(bus.cpu_ram, RamIndex(\h0100 + pre.cpu.sp)) = BitOr(get_status(pre.cpu), \h30)
    /\ cpu = [pre.cpu EXCEPT !.pc = @ + 1, !.sp = (@ + 255) % 256]

\* C28: PHP pushes the packed status byte with bit 4 (B) and bit 5 set and
\* changes nothing in the CPU but sp, which is one lower: every flag, the B
\* flag of the CPU included, and A, X and Y are as before.
C28_Php == last.op = "php" => PhpPushesStatus

\* What the code does: so it is unless sp is 0x00 in a build with overflow
\* checks, where the push ends in a panic after the byte is written.
C28_PhpAboveBottom ==
    /\ (last.op = "php" /\ (pre.cpu.sp # 0 \/ ~overflow_checks)) => PhpPushesStatus
    /\ (last.op = "php" /\ pre.cpu.sp = 0 /\ overflow_checks)
          => /\ err = "ArithmeticOverflow"
             /\ ArrGet(bus.cpu_ram, RamIndex(\h0100)) = BitOr(get_status(pre.cpu), \h30)

----------------------------------------------------------------------------
(* SpecCall: a JSR at p to a subroutine at t that returns at once, after a *)
(* PHA and a PLA, or after replacing the low byte of the return address,   *)
(* with the stack anywhere in its page, in both builds.                    *)

MaxCallOps == 5

CallSites == {\h0200, \h02FE}

CallTargets == {\h0400, \h07F0}

CallStackPointers == {\h00, \h01, \h10, \hFF}

CallBodies == { <<\h60>>, <<\h48, \h68, \h60>>, <<\h68, \hA9, \h77, \h48, \h60>> }

\* the bytes of body from its byte i on, stored from adress on
RECURSIVE write_body(_, _, _, _)
write_body(s, adress, body, i) ==
    IF i > Len(body) THEN s
    ELSE write_body(Bus_write(s, adress + (i - 1), body[i]), adress, body, i + 1)

CallLoaded(p, t, body) ==
    write_body(write_body(Loaded(<<>>), p, <<\h20, t % 256, t \div 256>>, 1), t, body, 1)

InitCall ==
    \E p \in CallSites, t \in CallTargets, sp \in CallStackPointers, body \in CallBodies :
        InitWith([CallLoaded(p, t, body).cpu EXCEPT !.sp = sp, !.pc = p, !.a = \h5A],
                 CallLoaded(p, t, body).bus, BOOLEAN)

\* the instruction at pc, by name
CallOpName(opcode) ==
    CASE opcode = \h20 -> "jsr"
      [] opcode = \h60 -> "rts"
      [] OTHER -> "turn"

\* the call in progress: the address of the JSR and the stack pointer
\* before it, kept from the JSR on
CallRecord(opcode) == IF opcode = \h20 THEN cpu.pc * 256 + cpu.sp ELSE last.value

\* let opcode = self.fetch(bus) ... self.execute(bus, &instr, &addr_mode)
CallTurnOp ==
    /\ err = "none"
    /\ steps < MaxCallOps
    /\ Turn(Machine, CallOpName(Bus_read(Machine, cpu.pc).ret),
            Bus_read(Machine, cpu.pc).ret, CallRecord(Bus_read(Machine, cpu.pc).ret))

NextCall == CallTurnOp

SpecCall == InitCall /\ [][NextCall]_vars

\* the address of the JSR in progress and the stack pointer before it
CallSite == last.value \div 256

CallStackPointer == last.value % 256

\* the target of the JSR at p, from its operand bytes
CallTarget(b, p) == ArrGet(b.cpu_ram, p + 1) + 256 * ArrGet(b.cpu_ram, p + 2)

\* the two bytes above the stack pointer sp are those of the address ret,
\* the low one on top
ReturnAddressAt(b, sp, ret) ==
    /\ ArrGet(b.cpu_ram, RamIndex(StackAbove(sp, 1))) = ret % 256
    /\ ArrGet(b.cpu_ram, RamIndex(StackAbove(sp, 2))) = ret \div 256

\* JSR as described: p + 2 is pushed, high byte first, and pc is the target
JsrPushesReturn ==
    /\ err = "none"
    /\ cpu.sp = (pre.cpu.sp + 254) % 256
    /\ ReturnAddressAt(bus, cpu.sp, last.adress + 2)
    /\ cpu.pc = CallTarget(pre.bus, last.adress)

\* RTS as described: pc is p + 3 and sp is what it was before the JSR
RtsReturns ==
    /\ err = "none"
    /\ cpu.pc = CallSite + 3
    /\ cpu.sp = CallStackPointer

\* the RTS found sp where the JSR left it and the two pushed bytes intact
RtsPaired ==
    /\ last.op = "rts"
    /\ pre.cpu.sp = (CallStackPointer + 254) % 256
    /\ ReturnAddressAt(pre.bus, pre.cpu.sp, CallSite + 2)

\* C29: JSR/RTS pairing.  A JSR at p with target t pushes the high byte and
\* then the low byte of p + 2 and sets pc to t; a later RTS that finds sp
\* where the JSR left it and the two bytes intact sets pc to p + 3 and sp to
\* what it was before the JSR.
C29_JsrRts ==
    /\ last.op = "jsr" => JsrPushesReturn
    /\ RtsPaired => RtsReturns

\* What the code does: so it is unless the JSR starts with sp 0x00 or 0x01
\* in a build with overflow checks, where a push ends in a panic.
C29_JsrRtsAboveBottom ==
    /\ (last.op = "jsr" /\ (pre.cpu.sp >= 2 \/ ~overflow_checks)) => JsrPushesReturn
    /\ (last.op = "jsr" /\ pre.cpu.sp < 2 /\ overflow_checks) => err = "ArithmeticOverflow"
    /\ RtsPaired => RtsReturns

----------------------------------------------------------------------------
(* The target of a relative branch, checked under SpecBranch.              *)

\* the address a taken branch goes to: the address that follows the offset
\* byte plus the offset as a signed number
RelativeTarget == last.adress + 2 + FromI8(last.value)

\* the branch ended with pc as described
BranchLands ==
    /\ err = "none"
    /\ cpu.pc = IF BranchTaken(last.ret, pre.cpu) THEN RelativeTarget ELSE last.adress + 2

\* C30: relative branch target.  For every pc and every offset byte, read as
\* a signed value in -128..=+127, a taken branch sets pc to the address that
\* follows the offset byte plus the offset, a branch not taken leaves pc at
\* the address that follows the offset byte, and the instruction does not
\* fail.
C30_BranchTarget == last.op = "branch" => BranchLands

\* What the code does: fetch_relative converts the sum to u16 before the
\* condition is looked at, so a branch whose target would be below 0x0000 or
\* above 0xFFFF panics, taken or not, in either build; every other branch
\* ends as described.
C30_BranchTargetInRange ==
    /\ (last.op = "branch" /\ RelativeTarget >= 0 /\ RelativeTarget <= \hFFFF) => BranchLands
    /\ (last.op = "branch" /\ (RelativeTarget < 0 \/ RelativeTarget > \hFFFF))
          => /\ err = "TryFromIntError"
             /\ cpu.pc = last.adress + 2

----------------------------------------------------------------------------
(* SpecOpcode: one turn of the run loop on every opcode of the decode      *)
(* table, with operand bytes at both ends of a page, index registers that  *)
(* cross a page or do not, and extra_cycle as a taken branch across a page *)
(* leaves it.                                                              *)

OpcodeOperands == {\h10, \hF0, \hFF}

OpcodeIndexes == {\h00, \h01, \hFF}

\* page zero filled as in LoadRam(0): every pointer in it leads to the RAM
\* or to the cartridge
OpcodeLoaded ==
    [Loaded(<<>>) EXCEPT !.bus.cpu_ram.cells = [j \in 0..255 |-> LoadByteAt(0, j)]]

InitOpcode ==
    \E i \in OpcodeIndexes, f \in Bit :
        InitWith([OpcodeLoaded.cpu EXCEPT !.x = i, !.y = i, !.a = \h5A, !.extra_cycle = 2,
                                          !.z = f, !.n = f, !.c = f, !.v = f],
                 OpcodeLoaded.bus, BOOLEAN)

\* let opcode = self.fetch(bus) ... self.execute(bus, &instr, &addr_mode)
OpcodeOp ==
    /\ err = "none"
    /\ steps = 0
    /\ \E opcode \in DOMAIN OpcodeTable, operand \in OpcodeOperands :
          Turn(WithProgram(<<opcode, operand, \h03>>), "opcode", opcode, operand)

NextOpcode == OpcodeOp

SpecOpcode == InitOpcode /\ [][NextOpcode]_vars

\* the instruction, the addressing mode and the length the table has for
\* the opcode of the last turn
LastInstruction == OpcodeTable[last.ret][1]

LastMode == OpcodeTable[last.ret][2]

LastSize == OpcodeTable[last.ret][3]

\* the address the index register is added to in the three modes that
\* count a page crossing, and the index
IndexedBase ==
    IF LastMode = "ZeroPageIndirectYIndexed" THEN ZeroPagePointer(last.value)
    ELSE \h0300 + last.value

IndexedIndex == IF LastMode = "XIndexedAbsolute" THEN pre.cpu.x ELSE pre.cpu.y

\* the high byte of base + index is not the high byte of base
PageCrossed == ((IndexedBase + IndexedIndex) \div 256) % 256 # IndexedBase \div 256

CrossingModes == {"XIndexedAbsolute", "YIndexedAbsolute", "ZeroPageIndirectYIndexed"}

\* the last turn ran an instruction that is not a branch (C18 has those)
\* and is not BRK, at which the loop stops before the reset of extra_cycle
Executed ==
    /\ last.op = "opcode" /\ err = "none"
    /\ LastMode # "Relative" /\ LastInstruction # "Brk"

\* C31: page-cross accounting for indexed modes.  extra_cycle is 0 when an
\* instruction starts, and after an instruction in X-indexed absolute,
\* Y-indexed absolute or zero-page-indirect Y-indexed mode it is 1 exactly
\* when the high byte of base + index is not that of base, and 0 otherwise.
C31_PageCross ==
    Executed =>
        cpu.extra_cycle = IF LastMode \in CrossingModes /\ PageCrossed THEN 1 ELSE 0

\* What the code does: so it is for every instruction but TOP, whose arm in
\* execute steps over the operand without a call of get_op_adress.
C31_PageCrossButTop ==
    Executed =>
        cpu.extra_cycle = IF LastMode \in CrossingModes /\ PageCrossed
                             /\ LastInstruction # "Top" THEN 1 ELSE 0


\* the last turn ran a TOP in X-indexed absolute mode, or a DOP
TopIndexed == Executed /\ LastInstruction = "Top" /\ LastMode = "XIndexedAbsolute"

DopRan == Executed /\ LastInstruction = "Dop"

\* pc is past the instruction and no register, flag or byte of memory changed
OnlyPcMoved ==
    /\ bus = pre.bus
    /\ Registers(cpu) = [Registers(pre.cpu) EXCEPT !.pc = @ + LastSize]

\* C32: DOP/TOP.  A TOP in X-indexed absolute mode (1C, 3C, 5C, 7C, DC, FC)
\* moves pc by 3, changes no register, flag or memory byte, and sets
\* extra_cycle to 1 exactly when base + X crosses a page; a DOP moves pc by 2
\* and changes nothing else.
C32_DopTop ==
    /\ TopIndexed => /\ OnlyPcMoved
                     /\ LastSize = 3
                     /\ cpu.extra_cycle = IF PageCrossed THEN 1 ELSE 0
    /\ DopRan => OnlyPcMoved /\ LastSize = 2

\* What the code does: the same, but extra_cycle is 0 after every TOP, page
\* crossed or not.
C32_TopCountsNoCrossing ==
    /\ TopIndexed => /\ OnlyPcMoved
                     /\ LastSize = 3
                     /\ cpu.extra_cycle = 0
    /\ DopRan => OnlyPcMoved /\ LastSize = 2

----------------------------------------------------------------------------
(* SpecRmw: DCP, ISB, SLO, SRE, RLA and RRA in zero-page, X-indexed        *)
(* absolute and (zp),Y mode, on every memory byte, with either carry and   *)
(* accumulators of both signs.                                             *)

RmwInstructions == {"Dcp", "Isb", "Slo", "Sre", "Rla", "Rra"}

RmwModes == {"ZeroPage", "XIndexedAbsolute", "ZeroPageIndirectYIndexed"}

RmwOpcodes ==
    {op \in DOMAIN OpcodeTable :
        OpcodeTable[op][1] \in RmwInstructions /\ OpcodeTable[op][2] \in RmwModes}

RmwAccumulators == {\h00, \h5A, \h80, \hFF}

\* the pointer 0x0340 is at 0x0020 of page zero
RmwLoaded == write_body(Loaded(<<>>), \h0020, <<\h40, \h03>>, 1)

InitRmw ==
    \E a \in RmwAccumulators, c \in Bit :
        InitWith([RmwLoaded.cpu EXCEPT !.a = a, !.c = c, !.v = 1 - c, !.x = \h04, !.y = \h04],
                 RmwLoaded.bus, BOOLEAN)

\* the operand of the instruction <<opcode, 0x20, 0x03>> in each mode, with
\* X = Y = 4
RmwAddress(addr_mode) ==
    CASE addr_mode = "ZeroPage" -> \h0020
      [] addr_mode = "XIndexedAbsolute" -> \h0324
      [] addr_mode = "ZeroPageIndirectYIndexed" -> \h0344

\* let opcode = self.fetch(bus) ... self.execute(bus, &instr, &addr_mode)
RmwOp ==
    /\ err = "none"
    /\ steps = 0
    /\ \E opcode \in RmwOpcodes, value \in Byte :
          Turn(Bus_write(WithProgram(<<opcode, \h20, \h03>>),
                         RmwAddress(OpcodeTable[opcode][2]), value),
               "rmw", opcode, value)

NextRmw == RmwOp

SpecRmw == InitRmw /\ [][NextRmw]_vars

\* the documented read-modify-write operation each instruction starts with
FirstDocumented(instruction, s, addr_mode) ==
    CASE instruction = "Dcp" -> apply_dec_op(s, addr_mode)
      [] instruction = "Isb" -> apply_inc_op(s, addr_mode)
      [] instruction = "Slo" -> apply_asl_op(s, addr_mode)
      [] instruction = "Sre" -> apply_lsr_op(s, addr_mode)
      [] instruction = "Rla" -> apply_rol_op(s, addr_mode)
      [] instruction = "Rra" -> apply_ror_op(s, addr_mode)

\* the documented operation with the accumulator it ends with
SecondDocumented(instruction, s, addr_mode) ==
    CASE instruction = "Dcp" -> apply_cmp_op(s, s.cpu.a, addr_mode)
      [] instruction = "Isb" -> apply_sbc_op(s, addr_mode)
      [] instruction = "Slo" -> apply_ora_op(s, addr_mode)
      [] instruction = "Sre" -> apply_eor_op(s, addr_mode)
      [] instruction = "Rla" -> apply_and_op(s, addr_mode)
      [] instruction = "Rra" -> apply_adc_op(s, addr_mode)

\* the machine after the two documented operations, each on the operand
\* bytes of the instruction the last turn ran
TwoDocumented ==
    LET s0 == [PreMachine EXCEPT !.cpu.pc = last.adress + 1, !.cpu.extra_cycle = 0]
    IN  Then(FirstDocumented(LastInstruction, s0, LastMode), LAMBDA s1 :
        SecondDocumented(LastInstruction, [s1 EXCEPT !.cpu.pc = last.adress + 1], LastMode))

\* C33: the undocumented read-modify-write opcodes are two documented
\* operations on the same effective address: DCP = DEC then CMP, ISB = INC
\* then SBC, SLO = ASL then ORA, SRE = LSR then EOR, RLA = ROL then AND,
\* RRA = ROR then ADC, with the same A, memory byte and C, Z, N and V at the
\* end.
C33_RmwComposition ==
    last.op = "rmw" =>
        /\ err = "none"
        /\ TwoDocumented.err = "none"
        /\ cpu = TwoDocumented.cpu
        /\ bus = TwoDocumented.bus

C33_Witness ==
    /\ last.op = "rmw" /\ err = "none"
    /\ LastInstruction = "Rra" /\ LastMode = "ZeroPageIndirectYIndexed"
    /\ last.value = \h01 /\ pre.cpu.c = 1 /\ pre.cpu.a = \h80
    /\ ArrGet(bus.cpu_ram, \h0344) = \h80
    /\ cpu.a = \h01 /\ cpu.c = 1 /\ cpu.v = 1 /\ cpu.n = 0 /\ cpu.z = 0

----------------------------------------------------------------------------
(* SpecPpu: a driver writing the PPU control and address registers and     *)
(* reading and writing the PPU data port through the bus, for a cartridge  *)
(* of each mirroring.                                                      *)

MaxPpuOps == 6

PpuRoms == {ines_rom(1, 1, mirroring) : mirroring \in Mirrorings}

PpuCtrls == {\h00, \h04}

PpuBytes == {\h00, \h1F, \h20, \h2C, \h3F, \hFF}

PpuValues == {\h7E}

\* the PPU registers do no arithmetic that can overflow: one build.
InitPpu == \E rom \in PpuRoms : InitWith(Cpu_new, Bus_new(rom), {TRUE})

PpuCtrlOp ==
    /\ err = "none"
    /\ steps < MaxPpuOps
    /\ \E value \in PpuCtrls :
          Commit([Bus_write(Machine, \h2000, value) EXCEPT !.ret = 0],
                 "write", \h2000, value)

PpuAddrOp ==
    /\ err = "none"
    /\ steps < MaxPpuOps
    /\ \E value \in PpuBytes :
          Commit([Bus_write(Machine, \h2006, value) EXCEPT !.ret = 0],
                 "write", \h2006, value)

PpuDataReadOp ==
    /\ err = "none"
    /\ steps < MaxPpuOps
    /\ Commit(Bus_read(Machine, \h2007), "read", \h2007, 0)

PpuDataWriteOp ==
    /\ err = "none"
    /\ steps < MaxPpuOps
    /\ \E value \in PpuValues :
          Commit([Bus_write(Machine, \h2007, value) EXCEPT !.ret = 0],
                 "write", \h2007, value)

NextPpu == PpuCtrlOp \/ PpuAddrOp \/ PpuDataReadOp \/ PpuDataWriteOp

SpecPpu == InitPpu /\ [][NextPpu]_vars

\* the VRAM address the last operation found, and the ranges it can lie in
VramAddr == pre.bus.ppu.addr.value

InPatternTable == VramAddr <= \h1FFF

InNametable == VramAddr >= \h2000 /\ VramAddr <= \h2FFF

InPalette == VramAddr >= \h3F00 /\ VramAddr <= \h3FFF

\* the last operation was an access to the data port in a range that serves
\* it: the pattern table is read only
DataPortAccess ==
    /\ last.adress = \h2007
    /\ \/ last.op = "read"  /\ (InPatternTable \/ InNametable \/ InPalette)
       \/ last.op = "write" /\ (InNametable \/ InPalette)

\* the VRAM address moved by the step the control register selected before
\* the access
VramAddrAdvanced ==
    bus.ppu.addr.value =
        (VramAddr + (IF BitAnd(pre.bus.ppu.ctrl.value, 4) = 0 THEN 1 ELSE 32)) % \h4000

\* the index of the last access, inside the table it is served from
InsideTable ==
    IF InNametable THEN mirror_vram_addr(pre.bus.ppu, VramAddr) < 2048
    ELSE IF InPalette THEN VramAddr - \h3F00 < 32
    ELSE TRUE

\* C34: a read or write of the PPU data port at 0x2007 whose VRAM address
\* lies in the pattern table (reads), the nametables or the palette
\* completes without failing and advances the VRAM address by 1 when bit 2
\* of the control register is clear and by 32 when it is set, modulo
\* 0x4000; a nametable write stores the byte at the mirrored VRAM index.
C34_DataPort ==
    DataPortAccess =>
        /\ err = "none"
        /\ VramAddrAdvanced
        /\ (last.op = "write" /\ InNametable) =>
               ArrGet(bus.ppu.vram, mirror_vram_addr(pre.bus.ppu, VramAddr)) = last.value

\* What the data port does: a read inside its table completes and advances
\* the address; so does a palette write below 0x3F20; a nametable write
\* inside the VRAM stores the byte, then fails before the address advances;
\* an access outside the table fails.
C34_DataPortAsCoded ==
    DataPortAccess =>
        /\ (InsideTable /\ ~(last.op = "write" /\ InNametable)) =>
               (err = "none" /\ VramAddrAdvanced)
        /\ (InsideTable /\ last.op = "write" /\ InNametable) =>
               /\ err = "NotYetImplemented"
               /\ bus.ppu.addr = pre.bus.ppu.addr
               /\ ArrGet(bus.ppu.vram, mirror_vram_addr(pre.bus.ppu, VramAddr)) = last.value
        /\ ~InsideTable => err = "IndexOutOfBounds"


----------------------------------------------------------------------------
(* SpecMirror: mirror_vram_addr called once on the PPU of a new bus, for a *)
(* cartridge of each mirroring and every nametable address.                *)

NametableAddrs == \h2000 .. \h2FFF

InitMirror == InitPpu

MirrorOp ==
    /\ err = "none"
    /\ steps = 0
    /\ \E addr \in NametableAddrs :
          Commit(Return(Machine, mirror_vram_addr(bus.ppu, addr)),
                 "mirror_vram_addr", addr, 0)

NextMirror == MirrorOp

SpecMirror == InitMirror /\ [][NextMirror]_vars

\* the nametable (0..3) of a nametable address
NametableOf(addr) == (addr - \h2000) \div \h400

\* the address of the same cell in another nametable
InNametableOf(addr, name_table) == \h2000 + name_table * \h400 + (addr % \h400)

\* nametables i and j share storage: the cell of the last call is the cell
\* the same offset of the other nametable is mirrored to
SharesStorage(i, j) ==
    /\ NametableOf(last.adress) = i =>
           last.ret = mirror_vram_addr(bus.ppu, InNametableOf(last.adress, j))
    /\ NametableOf(last.adress) = j =>
           last.ret = mirror_vram_addr(bus.ppu, InNametableOf(last.adress, i))

\* nametables i and j are kept apart
Apart(i, j) ==
    NametableOf(last.adress) = i =>
        last.ret # mirror_vram_addr(bus.ppu, InNametableOf(last.adress, j))

MirrorSharing ==
    /\ bus.ppu.mirroring = "Vertical" =>
           SharesStorage(0, 2) /\ SharesStorage(1, 3) /\ Apart(0, 1) /\ Apart(2, 3)
    /\ bus.ppu.mirroring = "Horizontal" =>
           SharesStorage(0, 1) /\ SharesStorage(2, 3) /\ Apart(0, 2) /\ Apart(1, 3)

\* C35: for every PPU address in 0x2000..=0x2FFF and each mirroring
\* (Horizontal, Vertical, FourScreen) mirror_vram_addr returns an index
\* below 2048; under Vertical mirroring nametables 0/2 and 1/3 share
\* storage, under Horizontal mirroring nametables 0/1 and 2/3 do.
C35_MirrorInsideVram ==
    last.op = "mirror_vram_addr" =>
        /\ err = "none"
        /\ last.ret < 2048
        /\ MirrorSharing

\* What mirror_vram_addr does: under Vertical and Horizontal mirroring the
\* index is below 2048 and the nametables are shared in pairs; under
\* FourScreen the index is the offset from 0x2000, up to 0x0FFF.
C35_MirrorAsCoded ==
    last.op = "mirror_vram_addr" =>
        /\ err = "none"
        /\ MirrorSharing
        /\ IF bus.ppu.mirroring = "FourScreen"
           THEN last.ret = last.adress - \h2000
           ELSE last.ret < 2048


\* the last two operations wrote the address register, the first of them
\* on a latch that expected the high byte
TwoAddrWrites ==
    /\ last.op = "write" /\ last.adress = \h2006
    /\ prev.op = "write" /\ prev.adress = \h2006
    /\ ~pre.bus.ppu.addr.is_hi

\* C40: after any sequence of writes to 0x2006 and accesses to 0x2007 the
\* VRAM address is at most 0x3FFF; the writes to 0x2006 take the high byte
\* then the low byte in turn, starting with the high byte, so two
\* consecutive writes hi, lo on a fresh latch leave the address
\* ((hi << 8) | lo) & 0x3FFF.
C40_AddrRegister ==
    /\ bus.ppu.addr.value <= \h3FFF
    /\ steps = 0 => bus.ppu.addr.is_hi
    /\ (last.op = "write" /\ last.adress = \h2006) =>
           /\ err = "none"
           /\ bus.ppu.addr.is_hi = ~pre.bus.ppu.addr.is_hi
    /\ (steps > 0 /\ last.adress # \h2006) =>
           bus.ppu.addr.is_hi = pre.bus.ppu.addr.is_hi
    /\ TwoAddrWrites =>
           /\ bus.ppu.addr.is_hi
           /\ bus.ppu.addr.value = BitAnd(BitOr(Shl(prev.value, 8, 16), last.value), \h3FFF)

C40_Witness ==
    /\ TwoAddrWrites /\ err = "none" /\ steps = 6
    /\ prev.value = \hFF /\ last.value = \h20
    /\ pre.bus.ppu.addr.value = \h3F01
    /\ bus.ppu.addr.value = \h3F20


----------------------------------------------------------------------------
(* Trace and the instruction it describes, under SpecTrace.                *)

\* the turn of the run loop on the state trace was called on
TracedTurn == run_iteration(PreMachine)

\* the traced instruction executes without failure
TracedExecutes == last.op = "trace" /\ TracedTurn.err = "none"

\* C36: trace never fails where execution succeeds.  In every state from
\* which the next instruction executes without failure, a store to a
\* write-only PPU register included, trace returns its line without failing.
C36_TraceWhereExecutes == TracedExecutes => err = "none"

\* What the code does: where the instruction executes, trace fails only on
\* a store whose target is a register Bus::read refuses to read.
C36_TraceFailsOnWriteOnly ==
    TracedExecutes =>
        \/ err = "none"
        \/ /\ err = "WriteOnlyRead"
           /\ OpcodeTable[last.value][1] \in {"Sta", "Stx", "Sty"}
           /\ OpcodeTable[last.value][2] = "Absolute"
           /\ TraceAbsolute \in WriteOnlyRegisters


----------------------------------------------------------------------------
(* The BRK that ends run_with_callback, under SpecRun.                     *)

\* C37: when the run loop stops on a BRK opcode at the address p, the BRK
\* is not executed: sp, the stack, every flag, A, X, Y and the memory are
\* as the previous instruction left them, and pc = p + 1.
C37_BrkNotExecuted ==
    run.phase = "done" =>
        /\ err = "none"
        /\ last.op = "instruction" /\ last.value = \h00
        /\ last.adress = pre.cpu.pc
        /\ cpu.pc = last.adress + 1
        /\ cpu.sp = pre.cpu.sp
        /\ <<cpu.a, cpu.x, cpu.y>> = <<pre.cpu.a, pre.cpu.x, pre.cpu.y>>
        /\ <<cpu.n, cpu.v, cpu.b, cpu.d, cpu.i, cpu.z, cpu.c>>
               = <<pre.cpu.n, pre.cpu.v, pre.cpu.b, pre.cpu.d, pre.cpu.i, pre.cpu.z, pre.cpu.c>>
        /\ bus = pre.bus

\* C37 witness: INX; PHA; PLA; CLC; BRK stopped at the BRK at 0x0204 with
\* the registers and the stack pointer the four instructions left.
C37_Witness ==
    /\ run.phase = "done"
    /\ run.opcodes = <<\hE8, \h48, \h68, \h18, \h00>>
    /\ last.adress = \h0204 /\ cpu.pc = \h0205
    /\ cpu.x = 1 /\ cpu.sp = pre.cpu.sp
    /\ bus = pre.bus


----------------------------------------------------------------------------
(* The lengths of the decode table, under SpecOpcode.                      *)

\* the bytes an instruction of the addressing mode takes: the opcode and
\* the operand bytes get_op_adress fetches
ModeLength(addr_mode) ==
    CASE addr_mode \in {"None", "Accumulator"} -> 1
      [] addr_mode \in {"Immediate", "ZeroPage", "XIndexedZeroPage", "YIndexedZeroPage",
                        "XIndexedZeroPageIndirect", "ZeroPageIndirectYIndexed",
                        "Relative"} -> 2
      [] addr_mode \in {"Absolute", "XIndexedAbsolute", "YIndexedAbsolute",
                        "AbsoluteIndirect"} -> 3

\* the instructions that load pc
PcLoaders == {"Jmp", "Jsr", "Rts", "Rti", "Brk"}

\* the last instruction was a branch and its condition held
LastBranchTaken == LastMode = "Relative" /\ BranchTaken(last.ret, pre.cpu)

\* C38: for every opcode of the decode table other than JMP, JSR, RTS, RTI,
\* BRK and taken branches, pc after the fetch and the execution is the pc of
\* the opcode plus the length the table records, and that length agrees
\* with the addressing mode: 1 for implicit and accumulator, 2 for
\* immediate, zero-page, indirect zero-page and relative, 3 for the
\* absolute modes.
C38_InstructionLength ==
    last.op = "opcode" =>
        /\ LastSize = ModeLength(LastMode)
        /\ (err = "none" /\ LastInstruction \notin PcLoaders /\ ~LastBranchTaken) =>
               cpu.pc = last.adress + LastSize

\* C38 witness: TOP $03FF,X and a BNE that is not taken
C38_Witness ==
    /\ last.op = "opcode" /\ err = "none"
    /\ \/ last.ret = \h1C /\ last.value = \hFF /\ cpu.pc = \h0203
       \/ last.ret = \hD0 /\ pre.cpu.z = 1 /\ cpu.pc = \h0202


----------------------------------------------------------------------------
(* SpecBits: an RTI at 0x0200 that pops the status byte q and returns to   *)
(* an instruction at 0x0300, for every opcode of the decode table, with    *)
(* resets in between, in both builds.                                      *)

MaxBitOps == 2

BitStatusBytes == {\h00, \hD3, \hFF}

BitOperands == {\h10, \hF0}

\* the program, its operand in page 3, and the stack above sp = 0x80: the
\* status byte and the return address of the RTI, then the bytes a pull or
\* a return of the instruction at 0x0300 finds
BitsLoaded(opcode, operand, q) ==
    write_bytes(OpcodeLoaded,
                << <<\h0200, \h40>>,
                   <<\h0300, opcode>>, <<\h0301, operand>>, <<\h0302, \h03>>,
                   <<\h0310, \hC1>>,
                   <<\h0181, q>>, <<\h0182, \h00>>, <<\h0183, \h03>>,
                   <<\h0184, \hFF>>, <<\h0185, \h00>>, <<\h0186, \h03>> >>, 1)

InitBits ==
    \E opcode \in DOMAIN OpcodeTable, operand \in BitOperands, q \in BitStatusBytes :
        InitWith([BitsLoaded(opcode, operand, q).cpu
                    EXCEPT !.sp = \h80, !.a = \h5A, !.x = \h04, !.y = \h04],
                 BitsLoaded(opcode, operand, q).bus, BOOLEAN)

\* let opcode = self.fetch(bus) ... self.execute(bus, &instr, &addr_mode)
BitsTurnOp ==
    /\ err = "none"
    /\ steps < MaxBitOps
    /\ Turn(Machine, "turn", Bus_read(Machine, cpu.pc).ret, 0)

\* cpu.reset(bus)
BitsResetOp ==
    /\ err = "none"
    /\ steps < MaxBitOps
    /\ Commit([reset(Machine) EXCEPT !.ret = 0], "reset", 0, 0)

NextBits == BitsTurnOp \/ BitsResetOp

SpecBits == InitBits /\ [][NextBits]_vars

\* the flag fields of the Cpu struct, and the bit of each in the status byte
FlagFields == {"n", "v", "b", "d", "i", "z", "c"}

FlagBit(f) ==
    CASE f = "n" -> 7 [] f = "v" -> 6 [] f = "b" -> 4 [] f = "d" -> 3
      [] f = "i" -> 2 [] f = "z" -> 1 [] f = "c" -> 0

\* C39: in every CPU state reached from Cpu::new() by resets and
\* instructions each of the flag fields n, v, b, d, i, z, c holds 0 or 1,
\* so get_status() packs them with no flag carrying into another bit: bit k
\* of the status byte is the flag of bit k, and bit 5 is set.
C39_FlagsAreBits ==
    /\ \A f \in FlagFields : Cpu_new[f] \in Bit /\ cpu[f] \in Bit
    /\ get_status(cpu) \in Byte
    /\ \A f \in FlagFields : Shr(get_status(cpu), FlagBit(f)) % 2 = cpu[f]
    /\ Shr(get_status(cpu), 5) % 2 = 1

\* C39 witness: the RTI popped 0xD3 (N, V, B, Z and C set) and the BIT $10
\* that followed found 0xD0 in the cell: N and V are set from it, Z is
\* cleared (A & 0xD0 is not 0), and B and C are as the RTI left them.
C39_Witness ==
    /\ last.op = "turn" /\ last.ret = \h24 /\ prev.op = "turn" /\ prev.ret = \h40
    /\ err = "none"
    /\ cpu.n = 1 /\ cpu.v = 1 /\ cpu.b = 1 /\ cpu.c = 1 /\ cpu.z = 0
    /\ get_status(cpu) = \hF1

============================================================================
